---- MODULE Spec2Model ----
(***************************************************************************)
(* Model of the Bluetooth transport layer of TiMini-Print:                 *)
(*   timiniprint/transport/bluetooth/types.py    DeviceInfo, ScanFailure   *)
(*   timiniprint/transport/bluetooth/backend.py  SppBackend, _scan_blocking*)
(*   timiniprint/devices/models.py               PrinterModelRegistry      *)
(*                                                                         *)
(* The specifications of the module:                                       *)
(*   SpecScan    the static scan_with_failures / _scan_blocking call       *)
(*   Spec        one SppBackend instance driven by one caller: connect,    *)
(*               write and disconnect, the loops of connect and write      *)
(*               taken one iteration per step                              *)
(*   SpecConc    one SppBackend instance called from two threads           *)
(*   SpecDedupe  DeviceInfo.dedupe on a list of records                    *)
(*   SpecMerge   DeviceInfo.merge on three records of one device           *)
(*   SpecDetect  PrinterModelRegistry.detect_with_origin                   *)
(***************************************************************************)
EXTENDS Integers, Sequences, FiniteSets, TLC

(***************************************************************************)
(* Bounds of the model.                                                    *)
(***************************************************************************)
MaxDevs == 2
MaxBleDevs == 1
MaxResolved == 5
MaxLen == 4
MaxChunk == 2
MaxConnects == 2
MaxThreadCalls == 2
MaxList == 3
MaxModels == 3
MaxQueue == 3

(***************************************************************************)
(* Python values.  None is modelled by one sentinel per type: 0 for an     *)
(* Optional[int] or an absent socket, "None" for an optional string.       *)
(***************************************************************************)
None == "None"
NoSock == 0
NoChannel == 0

CLASSIC == "classic"
BLE == "ble"
DeviceTransport == {CLASSIC, BLE}

(***************************************************************************)
(* DeviceInfo.  A name is a sequence of characters (small naturals), an    *)
(* address a natural standing for the address string; both keep the order  *)
(* Python's string comparison gives them.  Scanned devices take their      *)
(* names from an empty, a short and a longer name and their addresses from *)
(* two addresses.                                                          *)
(***************************************************************************)

RECURSIVE SeqsUpTo(_, _)
SeqsUpTo(S, n) ==
    IF n = 0 THEN {<<>>}
    ELSE LET shorter == SeqsUpTo(S, n - 1)
         IN  shorter \cup {Append(s, x) : s \in {t \in shorter : Len(t) = n - 1}, x \in S}

Names == {<<>>, <<1>>, <<1, 2>>}
Addresses == {1, 2}
PairedValues == {"true", "false", None}

DeviceInfo(name, address, paired, transport) ==
    [name |-> name, address |-> address, paired |-> paired, transport |-> transport]

\* str < str: lexicographic by character, a proper prefix is smaller
RECURSIVE StrLess(_, _)
StrLess(a, b) ==
    IF b = <<>> THEN FALSE
    ELSE IF a = <<>> THEN TRUE
    ELSE IF Head(a) # Head(b) THEN Head(a) < Head(b)
    ELSE StrLess(Tail(a), Tail(b))

\* DeviceTransport.value compared as a string: "ble" < "classic"
TransportRank(t) == IF t = BLE THEN 0 ELSE 1

\* variant of merge: the name of self is kept whenever it is not empty
MergeKeepsOwnName(self, other) ==
    LET name == IF self.name # <<>> THEN self.name ELSE other.name
        paired == IF self.paired = "true" \/ other.paired = "true" THEN "true"
                  ELSE IF self.paired = "false" \/ other.paired = "false" THEN "false"
                  ELSE None
    IN  DeviceInfo(name, self.address, paired, self.transport)

\* DeviceInfo.merge; the ValueError branch is never taken by dedupe, which
\* merges only records of one key
merge(self, other) ==
    LET name == IF self.name # <<>> /\ other.name # <<>>
                THEN (IF Len(self.name) >= Len(other.name) THEN self.name ELSE other.name)
                ELSE (IF self.name # <<>> THEN self.name ELSE other.name)
        paired == IF self.paired = "true" \/ other.paired = "true" THEN "true"
                  ELSE IF self.paired = "false" \/ other.paired = "false" THEN "false"
                  ELSE None
    IN  DeviceInfo(name, self.address, paired, self.transport)

DevKey(d) == <<d.address, d.transport>>

\* the by_addr dictionary of dedupe, as the sequence of its values in
\* insertion order
RECURSIVE ByAddr(_)
ByAddr(devices) ==
    IF devices = <<>> THEN <<>>
    ELSE LET n == Len(devices)
             before == ByAddr(SubSeq(devices, 1, n - 1))
             device == devices[n]
             hits == {i \in 1..Len(before) : DevKey(before[i]) = DevKey(device)}
         IN  IF hits = {} THEN Append(before, device)
             ELSE LET i == CHOOSE j \in hits : TRUE
                  IN  [before EXCEPT ![i] = merge(before[i], device)]

\* the sort key (item.name or "", item.address, item.transport.value), a < b
SortKeyLess(a, b) ==
    IF a.name # b.name THEN StrLess(a.name, b.name)
    ELSE IF a.address # b.address THEN a.address < b.address
    ELSE TransportRank(a.transport) < TransportRank(b.transport)

\* variant of SortByKey: the list is left in the order it came in
SortLeavesOrder(items) == items

\* list.sort is stable: an item goes after every item whose key is not greater
RECURSIVE SortByKey(_)
SortByKey(items) ==
    IF items = <<>> THEN <<>>
    ELSE LET n == Len(items)
             sorted == SortByKey(SubSeq(items, 1, n - 1))
             x == items[n]
             k == Cardinality({i \in 1..Len(sorted) : ~SortKeyLess(x, sorted[i])})
         IN  SubSeq(sorted, 1, k) \o <<x>> \o SubSeq(sorted, k + 1, Len(sorted))

\* variant of dedupe: the list is sorted first and merged afterwards
DedupeSortsBeforeMerging(devices) == ByAddr(SortByKey(devices))

dedupe(devices) == SortByKey(ByAddr(devices))

(***************************************************************************)
(* _scan_blocking.  The environment of one call is what each transport's   *)
(* adapter does: absent on this OS, scan_blocking raises, or scan_blocking *)
(* returns a list.                                                         *)
(***************************************************************************)
ScanErrors == {"ErrA", "ErrB"}
CLASSIC_NOT_SUPPORTED == "Classic Bluetooth not supported"
BLE_NOT_SUPPORTED == "BLE Bluetooth not supported"

ClassicDeviceInfos ==
    {DeviceInfo(n, a, p, CLASSIC) : n \in Names, a \in Addresses, p \in PairedValues}
\* the BLE adapter reports every device with paired=None
BleDeviceInfos == {DeviceInfo(n, a, None, BLE) : n \in Names, a \in Addresses}

NoAdapterEnv == [adapter |-> FALSE, exc |-> None, devices |-> <<>>]
AdapterEnvs(deviceInfos, maxDevs) ==
    {NoAdapterEnv}
    \cup {[adapter |-> TRUE, exc |-> e, devices |-> <<>>] : e \in ScanErrors}
    \cup {[adapter |-> TRUE, exc |-> None, devices |-> ds] : ds \in SeqsUpTo(deviceInfos, maxDevs)}

ScanFailure(transport, error) == [transport |-> transport, error |-> error]

\* variant of JoinFailures: only the last failure is written into the text
JoinFailuresLastOnly(failures) ==
    IF failures = <<>> THEN <<>>
    ELSE LET item == failures[Len(failures)]
         IN  <<item.transport, ": ", item.error>>

\* "; ".join(f"{item.transport.value}: {item.error}" for item in failures),
\* as the sequence of its text fragments
RECURSIVE JoinFailures(_)
JoinFailures(failures) ==
    IF failures = <<>> THEN <<>>
    ELSE LET item == Head(failures)
             piece == <<item.transport, ": ", item.error>>
         IN  IF Len(failures) = 1 THEN piece
             ELSE piece \o <<"; ">> \o JoinFailures(Tail(failures))

ScanReturn(devices, failures) ==
    [status |-> "return", devices |-> devices, failures |-> failures, error |-> <<>>]
ScanRaise(text) ==
    [status |-> "raise", devices |-> <<>>, failures |-> <<>>, error |-> text]

\* what one transport's block of _scan_blocking leaves in
\* (xxx_devices, xxx_failure)
TransportScan(include, env, notSupported) ==
    IF ~include THEN [devices |-> <<>>, failure |-> None]
    ELSE IF ~env.adapter THEN [devices |-> <<>>, failure |-> notSupported]
    ELSE IF env.exc # None THEN [devices |-> <<>>, failure |-> env.exc]
    ELSE [devices |-> env.devices, failure |-> None]

\* variant of _scan_blocking: the failures are returned with the classic
\* devices instead of being dropped
ScanBlockingKeepsFailures(include_classic, include_ble, classicEnv, bleEnv) ==
    LET classic == TransportScan(include_classic, classicEnv, CLASSIC_NOT_SUPPORTED)
        ble == TransportScan(include_ble, bleEnv, BLE_NOT_SUPPORTED)
        attempts == (IF include_classic THEN 1 ELSE 0) + (IF include_ble THEN 1 ELSE 0)
        failures ==
            (IF classic.failure # None THEN <<ScanFailure(CLASSIC, classic.failure)>> ELSE <<>>)
            \o (IF ble.failure # None THEN <<ScanFailure(BLE, ble.failure)>> ELSE <<>>)
    IN  IF classic.devices # <<>> THEN ScanReturn(dedupe(classic.devices), failures)
        ELSE IF ble.devices # <<>> THEN ScanReturn(dedupe(ble.devices), failures)
        ELSE IF attempts # 0 /\ failures # <<>> /\ Len(failures) >= attempts
             THEN ScanRaise(<<"Bluetooth scan failed (">> \o JoinFailures(failures) \o <<")">>)
        ELSE ScanReturn(<<>>, failures)

\* variant of _scan_blocking: any failure raises, also when another
\* transport completed
ScanBlockingRaisesOnAnyFailure(include_classic, include_ble, classicEnv, bleEnv) ==
    LET classic == TransportScan(include_classic, classicEnv, CLASSIC_NOT_SUPPORTED)
        ble == TransportScan(include_ble, bleEnv, BLE_NOT_SUPPORTED)
        failures ==
            (IF classic.failure # None THEN <<ScanFailure(CLASSIC, classic.failure)>> ELSE <<>>)
            \o (IF ble.failure # None THEN <<ScanFailure(BLE, ble.failure)>> ELSE <<>>)
    IN  IF classic.devices # <<>> THEN ScanReturn(dedupe(classic.devices), <<>>)
        ELSE IF ble.devices # <<>> THEN ScanReturn(dedupe(ble.devices), failures)
        ELSE IF failures # <<>>
             THEN ScanRaise(<<"Bluetooth scan failed (">> \o JoinFailures(failures) \o <<")">>)
        ELSE ScanReturn(<<>>, failures)

_scan_blocking(include_classic, include_ble, classicEnv, bleEnv) ==
    LET classic == TransportScan(include_classic, classicEnv, CLASSIC_NOT_SUPPORTED)
        ble == TransportScan(include_ble, bleEnv, BLE_NOT_SUPPORTED)
        attempts == (IF include_classic THEN 1 ELSE 0) + (IF include_ble THEN 1 ELSE 0)
        failures ==
            (IF classic.failure # None THEN <<ScanFailure(CLASSIC, classic.failure)>> ELSE <<>>)
            \o (IF ble.failure # None THEN <<ScanFailure(BLE, ble.failure)>> ELSE <<>>)
    IN  IF classic.devices # <<>> THEN ScanReturn(dedupe(classic.devices), <<>>)
        ELSE IF ble.devices # <<>> THEN ScanReturn(dedupe(ble.devices), failures)
        ELSE IF attempts # 0 /\ failures # <<>> /\ Len(failures) >= attempts
             THEN ScanRaise(<<"Bluetooth scan failed (">> \o JoinFailures(failures) \o <<")">>)
        ELSE ScanReturn(<<>>, failures)

(***************************************************************************)
(* devices/models.py: the printer model registry.  A string is a sequence  *)
(* of character codes: 1..26 the lower-case letters a..z, 101..126 the     *)
(* upper-case letters A..Z, 50..59 the digits, 90 the space, 91 the colon  *)
(* and 92 the dash.                                                        *)
(***************************************************************************)
IsLowerCase(c) == c \in 1..26
IsUpperCase(c) == c \in 101..126
IsSpace(c) == c = 90
IsHexDigit(c) == c \in 50..59 \/ c \in 101..106

\* str.lower, str.upper
lower(str) == [i \in 1..Len(str) |-> IF IsUpperCase(str[i]) THEN str[i] - 100 ELSE str[i]]
upper(str) == [i \in 1..Len(str) |-> IF IsLowerCase(str[i]) THEN str[i] + 100 ELSE str[i]]

\* str.startswith, str.endswith
startswith(str, prefix) ==
    Len(prefix) <= Len(str) /\ SubSeq(str, 1, Len(prefix)) = prefix
endswith(str, suffix) ==
    Len(suffix) <= Len(str)
    /\ SubSeq(str, Len(str) - Len(suffix) + 1, Len(str)) = suffix

\* str.strip
RECURSIVE lstrip(_)
lstrip(str) ==
    IF str # <<>> /\ IsSpace(Head(str)) THEN lstrip(Tail(str)) ELSE str
RECURSIVE rstrip(_)
rstrip(str) ==
    IF str # <<>> /\ IsSpace(str[Len(str)]) THEN rstrip(SubSeq(str, 1, Len(str) - 1)) ELSE str
strip(str) == rstrip(lstrip(str))

NotSpace(c) == ~IsSpace(c)

\* PrinterModelAliasNormalizer
normalize_alias_name(value) == upper(SelectSeq(value, NotSpace))
normalize_mac_candidate(value) == SelectSeq(upper(value), IsHexDigit)

HEAD_NAME == "head_name"
MODEL_NO == "model_no"
ALIAS == "alias"
MAC == "mac"

\* None where a string is expected: no string holds the character 0
NoneStr == <<0>>

\* PrinterModel, by the two fields detection reads
PrinterModel(model_no, head_name) == [model_no |-> model_no, head_name |-> head_name]
NoModel == PrinterModel(NoneStr, NoneStr)

PrinterModelMatch(model, source, alias_kind) ==
    [model |-> model, source |-> source, alias_kind |-> alias_kind]
NoMatch == PrinterModelMatch(NoModel, None, None)

\* PrinterModelMatch.used_alias
used_alias(match) == match.source = ALIAS

PrinterModelAliasMatch(target_head_name, kind) ==
    [target_head_name |-> target_head_name, kind |-> kind]
NoAliasMatch == PrinterModelAliasMatch(NoneStr, None)

PrinterModelHeadAlias(prefixes, map_model_head_name) ==
    [prefixes |-> prefixes, map_model_head_name |-> map_model_head_name]
PrinterModelMacAlias(suffixes, map_model_head_name) ==
    [suffixes |-> suffixes, map_model_head_name |-> map_model_head_name]
PrinterModelAliasRegistry(head_aliases, mac_aliases) ==
    [head_aliases |-> head_aliases, mac_aliases |-> mac_aliases]

\* the first of a set of positions of a list
FirstIndex(positions) == CHOOSE i \in positions : \A j \in positions : i <= j

\* PrinterModelHeadAlias.match_length
RECURSIVE match_length(_, _)
match_length(prefixes, normalized_name) ==
    IF prefixes = <<>> THEN 0
    ELSE LET n == Len(prefixes)
             longest == match_length(SubSeq(prefixes, 1, n - 1), normalized_name)
             prefix == normalize_alias_name(prefixes[n])
         IN  IF startswith(normalized_name, prefix) /\ Len(prefix) > longest
             THEN Len(prefix) ELSE longest

\* PrinterModelMacAlias.matches
matches(suffixes, address) ==
    IF address = <<>> THEN FALSE
    ELSE LET stripped == upper(strip(address))
             normalized == normalize_mac_candidate(address)
             candidates == {stripped} \cup (IF normalized # <<>> THEN {normalized} ELSE {})
         IN  \E i \in 1..Len(suffixes), candidate \in candidates :
                 endswith(candidate, upper(suffixes[i]))

\* the loop of resolve over the head aliases: the alias matched so far and
\* the length of its match
RECURSIVE LongestHeadAlias(_, _)
LongestHeadAlias(head_aliases, normalized_name) ==
    IF head_aliases = <<>> THEN [alias |-> PrinterModelHeadAlias(<<>>, NoneStr), len |-> 0]
    ELSE LET n == Len(head_aliases)
             sofar == LongestHeadAlias(SubSeq(head_aliases, 1, n - 1), normalized_name)
             prefix_len == match_length(head_aliases[n].prefixes, normalized_name)
         IN  IF prefix_len > sofar.len
             THEN [alias |-> head_aliases[n], len |-> prefix_len]
             ELSE sofar

\* variant of resolve: a MAC alias whose suffix matches decides, whether or
\* not a head-name alias matches the name
ResolveMacAliasAlone(aliases, name, address) ==
    IF name = <<>> \/ aliases.head_aliases = <<>> THEN NoAliasMatch
    ELSE LET found == LongestHeadAlias(aliases.head_aliases, normalize_alias_name(name))
             macs == {i \in 1..Len(aliases.mac_aliases) :
                          matches(aliases.mac_aliases[i].suffixes, address)}
         IN  IF macs # {}
             THEN PrinterModelAliasMatch(
                      aliases.mac_aliases[FirstIndex(macs)].map_model_head_name, MAC)
             ELSE IF found.len = 0 THEN NoAliasMatch
             ELSE PrinterModelAliasMatch(found.alias.map_model_head_name, HEAD_NAME)

\* variant of resolve: the MAC aliases are not looked at
ResolveHeadAliasOnly(aliases, name, address) ==
    IF name = <<>> \/ aliases.head_aliases = <<>> THEN NoAliasMatch
    ELSE LET found == LongestHeadAlias(aliases.head_aliases, normalize_alias_name(name))
         IN  IF found.len = 0 THEN NoAliasMatch
             ELSE PrinterModelAliasMatch(found.alias.map_model_head_name, HEAD_NAME)

\* PrinterModelAliasRegistry.resolve
resolve(aliases, name, address) ==
    IF name = <<>> \/ aliases.head_aliases = <<>> THEN NoAliasMatch
    ELSE LET found == LongestHeadAlias(aliases.head_aliases, normalize_alias_name(name))
             macs == {i \in 1..Len(aliases.mac_aliases) :
                          matches(aliases.mac_aliases[i].suffixes, address)}
         IN  IF found.len = 0 THEN NoAliasMatch
             ELSE IF macs # {}
             THEN PrinterModelAliasMatch(
                      aliases.mac_aliases[FirstIndex(macs)].map_model_head_name, MAC)
             ELSE PrinterModelAliasMatch(found.alias.map_model_head_name, HEAD_NAME)

\* PrinterModelRegistry.get_by_head_name
get_by_head_name(models, head_name) ==
    IF head_name = <<>> THEN NoModel
    ELSE LET target == lower(head_name)
             by_head == {i \in 1..Len(models) :
                             /\ models[i].head_name # <<>>
                             /\ lower(models[i].head_name) = target}
             by_no == {i \in 1..Len(models) : lower(models[i].model_no) = target}
         IN  IF by_head # {} THEN models[FirstIndex(by_head)]
             ELSE IF by_no # {} THEN models[FirstIndex(by_no)]
             ELSE NoModel

\* variant of LongestHeadName: the first model whose head_name matches is
\* kept, whatever the length of a later match
RECURSIVE FirstHeadName(_, _)
FirstHeadName(models, name_lower) ==
    IF models = <<>> THEN NoModel
    ELSE LET n == Len(models)
             match == FirstHeadName(SubSeq(models, 1, n - 1), name_lower)
             model == models[n]
         IN  IF /\ model.head_name # <<>>
                /\ startswith(name_lower, lower(model.head_name))
                /\ match = NoModel
             THEN model ELSE match

\* the first loop of detect_with_origin: the model matched so far
RECURSIVE LongestHeadName(_, _)
LongestHeadName(models, name_lower) ==
    IF models = <<>> THEN NoModel
    ELSE LET n == Len(models)
             match == LongestHeadName(SubSeq(models, 1, n - 1), name_lower)
             model == models[n]
         IN  IF /\ model.head_name # <<>>
                /\ startswith(name_lower, lower(model.head_name))
                /\ (match = NoModel \/ Len(model.head_name) > Len(match.head_name))
             THEN model ELSE match

\* the second loop of detect_with_origin
RECURSIVE LongestModelNo(_, _)
LongestModelNo(models, name_lower) ==
    IF models = <<>> THEN NoModel
    ELSE LET n == Len(models)
             match == LongestModelNo(SubSeq(models, 1, n - 1), name_lower)
             model == models[n]
         IN  IF /\ startswith(name_lower, lower(model.model_no))
                /\ (match = NoModel \/ Len(model.model_no) > Len(match.model_no))
             THEN model ELSE match

\* PrinterModelRegistry._detect_from_alias
_detect_from_alias(models, aliases, name, address) ==
    LET alias_match == resolve(aliases, name, address)
        model == get_by_head_name(models, alias_match.target_head_name)
    IN  IF alias_match = NoAliasMatch THEN NoMatch
        ELSE IF model = NoModel THEN NoMatch
        ELSE PrinterModelMatch(model, ALIAS, alias_match.kind)

\* variant of detect_with_origin: the longer of the head_name match and the
\* model_no match is returned
DetectLongestPrefix(models, aliases, name, address) ==
    IF name = <<>> THEN NoMatch
    ELSE LET name_lower == lower(name)
             by_head == LongestHeadName(models, name_lower)
             by_no == LongestModelNo(models, name_lower)
         IN  IF by_head # NoModel
                /\ (by_no = NoModel \/ Len(by_no.model_no) <= Len(by_head.head_name))
             THEN PrinterModelMatch(by_head, HEAD_NAME, None)
             ELSE IF by_no # NoModel THEN PrinterModelMatch(by_no, MODEL_NO, None)
             ELSE _detect_from_alias(models, aliases, name, address)

\* PrinterModelRegistry.detect_with_origin
detect_with_origin(models, aliases, name, address) ==
    IF name = <<>> THEN NoMatch
    ELSE LET name_lower == lower(name)
             by_head == LongestHeadName(models, name_lower)
             by_no == LongestModelNo(models, name_lower)
         IN  IF by_head # NoModel THEN PrinterModelMatch(by_head, HEAD_NAME, None)
             ELSE IF by_no # NoModel THEN PrinterModelMatch(by_no, MODEL_NO, None)
             ELSE _detect_from_alias(models, aliases, name, address)

(***************************************************************************)
(* devices/resolve.py: DeviceResolver.  The address of a DeviceInfo is a   *)
(* number in the scan; AddressText is the string it stands for.            *)
(***************************************************************************)
\* "0A:00:00:00:00:0B" and "B0:00:00:00:00:0A"
AddressText(address) ==
    IF address = 1
    THEN <<50, 101, 91, 50, 50, 91, 50, 50, 91, 50, 50, 91, 50, 50, 91, 50, 102>>
    ELSE <<102, 50, 91, 50, 50, 91, 50, 50, 91, 50, 50, 91, 50, 50, 91, 50, 101>>

\* [0-9A-Fa-f]
IsHexChar(c) == IsHexDigit(c) \/ c \in 1..6

\* _ADDRESS_RE.match: six pairs of hex digits separated by ':' or '-'
_ADDRESS_RE(value) ==
    /\ Len(value) = 17
    /\ \A i \in 1..17 : IF i % 3 = 0 THEN value[i] \in {91, 92} ELSE IsHexChar(value[i])

\* _UUID_RE.match: hex digits in groups of 8-4-4-4-12
_UUID_RE(value) ==
    /\ Len(value) = 36
    /\ \A i \in 1..36 : IF i \in {9, 14, 19, 24} THEN value[i] = 92 ELSE IsHexChar(value[i])

\* DeviceResolver._looks_like_address
_looks_like_address(value) ==
    LET trimmed == strip(value)
    IN  _ADDRESS_RE(trimmed) \/ _UUID_RE(trimmed)

\* sub in str
contains(str, sub) ==
    \E i \in 0..(Len(str) - Len(sub)) : SubSeq(str, i + 1, i + Len(sub)) = sub

\* PrinterModelRegistry.detect_from_device_name
detect_from_device_name(registry, name, address) ==
    detect_with_origin(registry.models, registry.aliases, name, address).model

\* variant of filter_printer_devices: every named device is kept
FilterKeepsNamed(registry, devices) ==
    SelectSeq(devices, LAMBDA device : device.name # <<>>)

\* DeviceResolver.filter_printer_devices
RECURSIVE filter_printer_devices(_, _)
filter_printer_devices(registry, devices) ==
    IF devices = <<>> THEN <<>>
    ELSE LET n == Len(devices)
             filtered == filter_printer_devices(registry, SubSeq(devices, 1, n - 1))
             device == devices[n]
         IN  IF detect_from_device_name(registry, device.name,
                                        AddressText(device.address)) # NoModel
             THEN Append(filtered, device) ELSE filtered

\* the key (item.transport != CLASSIC, item.name or "", item.address), a < b
ResolverKeyLess(a, b) ==
    IF (a.transport # CLASSIC) # (b.transport # CLASSIC) THEN a.transport = CLASSIC
    ELSE IF a.name # b.name THEN StrLess(a.name, b.name)
    ELSE a.address < b.address

\* DeviceResolver._sort_devices: sorted() is stable
RECURSIVE _sort_devices(_)
_sort_devices(devices) ==
    IF devices = <<>> THEN <<>>
    ELSE LET n == Len(devices)
             sorted == _sort_devices(SubSeq(devices, 1, n - 1))
             x == devices[n]
             k == Cardinality({i \in 1..Len(sorted) : ~ResolverKeyLess(x, sorted[i])})
         IN  SubSeq(sorted, 1, k) \o <<x>> \o SubSeq(sorted, k + 1, Len(sorted))

\* no DeviceInfo: None where a device is expected
NoDevice == DeviceInfo(<<>>, 0, None, None)

\* variant of _select_device: the first device whose name is the hint or
\* contains it is taken
SelectFirstContaining(devices, name_or_address) ==
    LET hint == lower(name_or_address)
        by_address == {i \in 1..Len(devices) :
                           lower(AddressText(devices[i].address)) = hint}
        by_substring == {i \in 1..Len(devices) : contains(lower(devices[i].name), hint)}
    IN  IF _looks_like_address(name_or_address)
        THEN (IF by_address # {} THEN devices[FirstIndex(by_address)] ELSE NoDevice)
        ELSE IF by_substring # {} THEN devices[FirstIndex(by_substring)]
        ELSE NoDevice

\* DeviceResolver._select_device
_select_device(devices, name_or_address) ==
    LET target == lower(name_or_address)
        by_address == {i \in 1..Len(devices) :
                           lower(AddressText(devices[i].address)) = target}
        by_name == {i \in 1..Len(devices) : lower(devices[i].name) = target}
        by_substring == {i \in 1..Len(devices) : contains(lower(devices[i].name), target)}
    IN  IF _looks_like_address(name_or_address)
        THEN (IF by_address # {} THEN devices[FirstIndex(by_address)] ELSE NoDevice)
        ELSE IF by_name # {} THEN devices[FirstIndex(by_name)]
        ELSE IF by_substring # {} THEN devices[FirstIndex(by_substring)]
        ELSE NoDevice

\* RuntimeError(text), with the value formatted into the text
ResolveError(text, arg) == [text |-> text, arg |-> arg]
NO_SUPPORTED_PRINTERS == "No supported printers found"
NO_DEVICE_MATCHES == "No device matches"
SCAN_FAILED == "Bluetooth scan failed"

ResolveReturn(device) == [status |-> "return", device |-> device, error |-> None]
ResolveRaise(error) == [status |-> "raise", device |-> NoDevice, error |-> error]

\* the scan resolve_printer_device starts: SppBackend.scan_with_failures
\* narrowed to the transport, or SppBackend.scan
ResolverScan(transport, classicEnv, bleEnv) ==
    IF transport = CLASSIC THEN _scan_blocking(TRUE, FALSE, classicEnv, bleEnv)
    ELSE IF transport = BLE THEN _scan_blocking(FALSE, TRUE, classicEnv, bleEnv)
    ELSE _scan_blocking(TRUE, TRUE, classicEnv, bleEnv)

\* variant of resolve_printer_device: the devices of a scan narrowed to one
\* transport are taken in the order the adapter reported them
ResolveTakesAdapterOrder(registry, name_or_address, transport, classicEnv, bleEnv) ==
    LET found == IF transport = CLASSIC THEN classicEnv.devices
                 ELSE IF transport = BLE THEN bleEnv.devices
                 ELSE _scan_blocking(TRUE, TRUE, classicEnv, bleEnv).devices
        filtered == filter_printer_devices(registry, found)
        devices == IF transport = None THEN _sort_devices(filtered) ELSE filtered
    IN  IF devices = <<>> THEN ResolveRaise(ResolveError(NO_SUPPORTED_PRINTERS, <<>>))
        ELSE IF name_or_address # <<>>
        THEN LET device == _select_device(devices, name_or_address)
             IN  IF device = NoDevice
                 THEN ResolveRaise(ResolveError(NO_DEVICE_MATCHES, name_or_address))
                 ELSE ResolveReturn(device)
        ELSE ResolveReturn(devices[1])

\* DeviceResolver.resolve_printer_device; an error of the scan propagates
resolve_printer_device(registry, name_or_address, transport, classicEnv, bleEnv) ==
    LET scan == ResolverScan(transport, classicEnv, bleEnv)
        filtered == filter_printer_devices(registry, scan.devices)
        devices == IF transport = None THEN _sort_devices(filtered) ELSE filtered
    IN  IF scan.status = "raise" THEN ResolveRaise(ResolveError(SCAN_FAILED, scan.error))
        ELSE IF devices = <<>> THEN ResolveRaise(ResolveError(NO_SUPPORTED_PRINTERS, <<>>))
        ELSE IF name_or_address # <<>>
        THEN LET device == _select_device(devices, name_or_address)
             IN  IF device = NoDevice
                 THEN ResolveRaise(ResolveError(NO_DEVICE_MATCHES, name_or_address))
                 ELSE ResolveReturn(device)
        ELSE ResolveReturn(devices[1])

(***************************************************************************)
(* adapters/linux_cmd.py and adapters/linux_adapter.py.  The environment   *)
(* of a call is what the external commands do: whether bluetoothctl is     *)
(* installed and what each of its runs reports.                            *)
(***************************************************************************)
PAIRING_FAILED == "pairing failed"
PAIRING_DID_NOT_COMPLETE == "pairing did not complete"
TIMEOUT_EXPIRED == "TimeoutExpired"
BLUETOOTHCTL_NOT_FOUND == "bluetoothctl not found"

\* how a call ended and the commands it ran, in order
CallReturn(commands) == [status |-> "return", commands |-> commands, error |-> None]
CallRaise(commands, error) == [status |-> "raise", commands |-> commands, error |-> error]

\* LinuxCommandTools._bluetoothctl_is_paired: the "Paired:" line of
\* `bluetoothctl info`; a run that fails or prints no such line counts as
\* not paired
_bluetoothctl_is_paired(info) == info = "yes"

\* LinuxCommandTools.ensure_paired; _bluetoothctl_pair raises on a non-zero
\* return code and lets the timeout of subprocess.run through,
\* _bluetoothctl_trust swallows every failure
linux_ensure_paired(env) ==
    IF ~env.has_bluetoothctl THEN CallReturn(<<>>)
    ELSE IF _bluetoothctl_is_paired(env.info1) THEN CallReturn(<<"info">>)
    ELSE IF env.pair = "failed" THEN CallRaise(<<"info", "pair">>, PAIRING_FAILED)
    ELSE IF env.pair = "timeout" THEN CallRaise(<<"info", "pair">>, TIMEOUT_EXPIRED)
    ELSE IF _bluetoothctl_is_paired(env.info2)
    THEN CallReturn(<<"info", "pair", "trust", "info">>)
    ELSE CallRaise(<<"info", "pair", "trust", "info">>, PAIRING_DID_NOT_COMPLETE)

\* Optional[Set[str]]: a set of addresses, or None
AddressSet(addresses) == [known |-> TRUE, addresses |-> addresses]
NoAddressSet == [known |-> FALSE, addresses |-> {}]

\* what scan_blocking of an adapter returned or raised
AdapterScanReturn(devices) == [status |-> "return", devices |-> devices, error |-> None]
AdapterScanRaise(error) == [status |-> "raise", devices |-> <<>>, error |-> error]

\* the loop of scan_devices over the "Device" lines of `bluetoothctl devices`
RECURSIVE ScanDeviceLines(_, _, _)
ScanDeviceLines(lines, paired_addresses, info_paired) ==
    IF lines = <<>> THEN <<>>
    ELSE LET n == Len(lines)
             line == lines[n]
             paired == IF paired_addresses # {} THEN line.address \in paired_addresses
                       ELSE line.address \in info_paired
         IN  Append(ScanDeviceLines(SubSeq(lines, 1, n - 1), paired_addresses, info_paired),
                    DeviceInfo(line.name, line.address,
                               (IF paired THEN "true" ELSE "false"), CLASSIC))

\* LinuxCommandTools.scan_devices, for an installed bluetoothctl: the devices
\* and the paired addresses
scan_devices(env) ==
    IF env.tool = "failed" THEN [devices |-> <<>>, paired_addresses |-> NoAddressSet]
    ELSE LET devices == ScanDeviceLines(env.lines, env.paired_listing, env.info_paired)
             derived_paired == {devices[i].address : i \in {j \in 1..Len(devices) :
                                                               devices[j].paired = "true"}}
         IN  [devices |-> dedupe(devices),
              paired_addresses |->
                  IF env.paired_listing # {} THEN AddressSet(env.paired_listing)
                  ELSE IF derived_paired # {} THEN AddressSet(derived_paired)
                  ELSE NoAddressSet]

\* _BluetoothAdapter._scan_bleak: no device when bleak cannot be imported or
\* its discovery raises
RECURSIVE _scan_bleak(_, _)
_scan_bleak(bleak, paired_addresses) ==
    IF ~bleak.ok \/ bleak.found = <<>> THEN <<>>
    ELSE LET n == Len(bleak.found)
             device == bleak.found[n]
             paired == IF ~paired_addresses.known THEN None
                       ELSE IF device.address \in paired_addresses.addresses THEN "true"
                       ELSE "false"
         IN  Append(_scan_bleak([bleak EXCEPT !.found = SubSeq(bleak.found, 1, n - 1)],
                                paired_addresses),
                    DeviceInfo(device.name, device.address, paired, CLASSIC))

\* _LinuxBluetoothAdapter.scan_blocking
linux_scan_blocking(env) ==
    IF env.tool = "missing" THEN AdapterScanRaise(BLUETOOTHCTL_NOT_FOUND)
    ELSE LET found == scan_devices(env)
             bleak_devices == _scan_bleak(env.bleak, found.paired_addresses)
         IN  AdapterScanReturn(dedupe(found.devices \o bleak_devices))

(***************************************************************************)
(* adapters/windows_win32.py, adapters/windows_winrt.py and                *)
(* adapters/windows_adapter.py.  The environment of a call is what the two *)
(* native paths and the BLE library do.                                    *)
(***************************************************************************)
\* windows_win32.scan_inquiry: no device when the OS library cannot be
\* loaded; the first record seen of an address is kept
RECURSIVE scan_inquiry(_)
scan_inquiry(inquiry) ==
    IF ~inquiry.ok \/ inquiry.found = <<>> THEN <<>>
    ELSE LET n == Len(inquiry.found)
             info == inquiry.found[n]
             seen == scan_inquiry([inquiry EXCEPT !.found = SubSeq(inquiry.found, 1, n - 1)])
         IN  IF \E i \in 1..Len(seen) : seen[i].address = info.address THEN seen
             ELSE Append(seen, DeviceInfo(info.name, info.address,
                                          (IF info.address \in inquiry.remembered
                                           THEN "true" ELSE "false"), CLASSIC))

\* the devices list built by _scan_winrt_async, before it is deduplicated
RECURSIVE WinRtDevices(_)
WinRtDevices(found) ==
    IF found = <<>> THEN <<>>
    ELSE LET n == Len(found)
         IN  Append(WinRtDevices(SubSeq(found, 1, n - 1)),
                    DeviceInfo(found[n].name, found[n].address, None, CLASSIC))

\* windows_winrt._scan_winrt: the devices and the addresses that have a
\* service id in the mapping, unless the managed runtime raised
_scan_winrt(winrt) ==
    IF ~winrt.ok THEN [raised |-> TRUE, devices |-> <<>>, mapping |-> {}]
    ELSE [raised |-> FALSE,
          devices |-> dedupe(WinRtDevices(winrt.found)),
          mapping |-> {winrt.found[i].address : i \in 1..Len(winrt.found)}]

\* _WindowsBluetoothAdapter.scan_blocking: what it returns and the keys of
\* _service_by_address when it has returned
windows_scan_blocking(env) ==
    LET devices == scan_inquiry(env.inquiry)
        bleak_devices == _scan_bleak(env.bleak, NoAddressSet)
        scanned == _scan_winrt(env.winrt)
    IN  [status |-> "return",
         devices |-> dedupe(devices \o bleak_devices),
         error |-> None,
         _service_by_address |-> IF scanned.raised THEN env.cached ELSE scanned.mapping]

WIN32_RETURNED_FALSE == "pairing failed (Win32 returned False)"

\* RuntimeError(f"pairing failed (WinRT: {winrt_error}; Win32: {win32_error})")
\* and its two shorter forms, as the errors the message quotes
WindowsPairingError(winrt_error, win32_error) == [winrt |-> winrt_error, win32 |-> win32_error]

\* the rescan of ensure_paired: _service_by_address is replaced unless the
\* address is already in it or _scan_winrt raised
Rescanned(known, rescan) ==
    IF known THEN TRUE
    ELSE IF rescan = "raises" THEN FALSE
    ELSE rescan = "with"

\* ensure_paired raises the WinRT error alone whenever the WinRT pairing
\* raised and Win32 did not pair
EnsurePairedQuotesWinRtOnly(env) ==
    LET winrt_error == IF env.winrt.ok THEN None ELSE env.winrt.error
    IN  IF winrt_error # None /\ env.win32 # "true"
        THEN CallRaise(<<"winrt", "win32">>, WindowsPairingError(winrt_error, None))
        ELSE CallReturn(<<"winrt">>)

\* _WindowsBluetoothAdapter.ensure_paired
windows_ensure_paired(env) ==
    LET winrt_error == IF env.winrt.ok THEN None ELSE env.winrt.error
        known1 == Rescanned(env.known, env.rescan1)
        needs_win32 == winrt_error # None \/ ~known1
        win32_paired == needs_win32 /\ env.win32 = "true"
        win32_error == IF ~needs_win32 \/ env.win32 = "true" THEN None
                       ELSE IF env.win32 = "false" THEN WIN32_RETURNED_FALSE
                       ELSE env.win32_error
        known2 == IF needs_win32 THEN Rescanned(known1, env.rescan2) ELSE known1
        commands == IF needs_win32 THEN <<"winrt", "win32">> ELSE <<"winrt">>
    IN  IF winrt_error # None /\ ~win32_paired
        THEN IF win32_error # None
             THEN CallRaise(commands, WindowsPairingError(winrt_error, win32_error))
             ELSE CallRaise(commands, WindowsPairingError(winrt_error, None))
        ELSE IF win32_error # None /\ ~known2
        THEN CallRaise(commands, WindowsPairingError(None, win32_error))
        ELSE CallReturn(commands)

(***************************************************************************)
(* adapters/bleak_adapter.py: _BleakSocket.  Besides the fields of the     *)
(* socket the model keeps the state of the GATT session of its client and  *)
(* of the event loop that connect created.  The environment of a socket is *)
(* what bleak does: whether it can be imported, whether the client         *)
(* connects, what client.pair() does, whether the device has a writable    *)
(* characteristic and whether client.disconnect() raises.                  *)
(***************************************************************************)
\* an error raised by the socket: its text and the address it names, 0 if none
BleError(text, address) == [text |-> text, address |-> address]
NoBleError == BleError(None, 0)
MISSING_BLEAK == "bleak is required for BLE Bluetooth support"
FAILED_TO_CONNECT == "Failed to connect to BLE device"
BLE_PAIRING_FAILED == "BLE pairing failed"
NO_WRITABLE_CHARACTERISTIC == "Could not find a writable GATT characteristic on device"
DISCONNECT_FAILED == "client.disconnect() raised"

\* no socket was created yet
NoBleSocket ==
    [_client |-> FALSE, _write_char |-> FALSE, _address |-> 0, _connected |-> FALSE,
     _loop |-> FALSE, _pairing_hint |-> FALSE, session |-> "none", loop |-> "none",
     at |-> "none", error |-> NoBleError]

\* _BleakSocket.__init__, with IS_MACOS of the OS
_BleakSocket(pairing_hint, os) ==
    [NoBleSocket EXCEPT !._pairing_hint = (pairing_hint = "true" /\ os # "macos"),
                        !.at = "new"]

\* _BleakSocket._cleanup_loop
_cleanup_loop(s) ==
    IF s._loop THEN [s EXCEPT !.loop = "closed", !._loop = FALSE] ELSE s

\* _BleakSocket._pair_if_supported: the error it raises, if any
_pair_if_supported(env) ==
    IF env.pair = "absent" THEN NoBleError
    ELSE IF env.pair \in {"raises", "false"} THEN BleError(BLE_PAIRING_FAILED, 0)
    ELSE NoBleError

\* _BleakSocket._find_write_characteristic
_find_write_characteristic(s, env) ==
    IF ~s._client \/ ~s._connected THEN FALSE ELSE env.write_char

\* _BleakSocket._connect_async: the socket when the coroutine ends and the
\* error it raised, if any
_connect_async(s, env, address) ==
    IF env.client = "no_bleak" THEN [s EXCEPT !.error = BleError(MISSING_BLEAK, 0)]
    ELSE IF env.client = "raises"
    THEN [s EXCEPT !._client = TRUE, !.error = BleError(FAILED_TO_CONNECT, address)]
    ELSE LET opened == [s EXCEPT !._client = TRUE, !.session = "open", !._connected = TRUE]
             pair_error == IF opened._pairing_hint THEN _pair_if_supported(env)
                           ELSE NoBleError
         IN  IF pair_error # NoBleError THEN [opened EXCEPT !.error = pair_error]
             ELSE IF _find_write_characteristic(opened, env)
             THEN [opened EXCEPT !._write_char = TRUE]
             ELSE IF env.disconnect = "raises"
             THEN [opened EXCEPT !.error = BleError(DISCONNECT_FAILED, 0)]
             ELSE [opened EXCEPT !.session = "disconnected", !._connected = FALSE,
                                 !.error = BleError(NO_WRITABLE_CHARACTERISTIC, address)]

\* _BleakSocket.connect
ble_connect(s, env, address) ==
    LET started == [s EXCEPT !._address = address, !._loop = TRUE, !.loop = "open"]
        ended == _connect_async(started, env, address)
    IN  IF ended.error # NoBleError THEN [_cleanup_loop(ended) EXCEPT !.at = "raised"]
        ELSE [ended EXCEPT !.at = "connected"]

\* _BleakSocket.close
ble_close(s, env) ==
    LET disconnected == IF s._loop /\ s._client /\ s._connected /\ env.disconnect = "ok"
                        THEN [s EXCEPT !.session = "disconnected"]
                        ELSE s
    IN  [_cleanup_loop([disconnected EXCEPT !._connected = FALSE]) EXCEPT !.at = "closed"]

(***************************************************************************)
(* The platform.  The OS is fixed for the life of the process and decides  *)
(* which adapter classes exist and what their sockets can do.              *)
(***************************************************************************)
Platforms == {"linux", "linux_no_rfcomm", "windows", "macos", "other"}

LINUX_ADAPTER == "_LinuxBluetoothAdapter"
WINDOWS_ADAPTER == "_WindowsBluetoothAdapter"
BLEAK_ADAPTER == "_BleakBleAdapter"

_get_classic_adapter(platform) ==
    IF platform = "windows" THEN WINDOWS_ADAPTER
    ELSE IF platform \in {"linux", "linux_no_rfcomm"} THEN LINUX_ADAPTER
    ELSE None

_get_ble_adapter(platform) ==
    IF platform = "other" THEN None ELSE BLEAK_ADAPTER

_select_adapter(platform, transport) ==
    IF transport = BLE THEN _get_ble_adapter(platform) ELSE _get_classic_adapter(platform)

\* single_channel of the BLE adapter class
BleSingleChannel == TRUE

single_channel(adapter) ==
    IF adapter = WINDOWS_ADAPTER THEN TRUE
    ELSE IF adapter = BLEAK_ADAPTER THEN BleSingleChannel
    ELSE FALSE

\* what adapter.resolve_rfcomm_channel can return: the Linux adapter parses
\* a channel out of sdptool's output or finds none, the Windows adapter
\* answers RFCOMM_CHANNELS[0], a BLE adapter has no channel or a dummy 1
ResolvedChannels(adapter) ==
    IF adapter = LINUX_ADAPTER THEN {NoChannel} \cup 1..MaxResolved
    ELSE IF adapter = WINDOWS_ADAPTER THEN {1}
    ELSE {NoChannel, 1}

\* whether the socket class of the adapter has a settimeout method:
\* socket.socket and _BleakSocket do, _WinRtSocket does not
HasSetTimeout(adapter) == adapter # WINDOWS_ADAPTER

\* create_socket of the Linux adapter raises where Python has no RFCOMM
CreateSocketRaises(platform, adapter) ==
    adapter = LINUX_ADAPTER /\ platform = "linux_no_rfcomm"

(***************************************************************************)
(* Exceptions: class, errno, winerror and str(exc).                        *)
(***************************************************************************)
Exc(cls, errno, winerror, text) ==
    [cls |-> cls, errno |-> errno, winerror |-> winerror, text |-> text]
NoExc == Exc(None, 0, 0, None)

ConnectErrors ==
    { Exc("TimeoutError", 0, 0, "timed out"),
      Exc("OSError", 110, 0, "ETIMEDOUT"),
      Exc("OSError", 0, 10060, "WSAETIMEDOUT"),
      Exc("OSError", 111, 0, "Connection refused"),
      Exc("RuntimeError", 0, 0, "Bluetooth SPP service not found for device") }
CreateError == Exc("RuntimeError", 0, 0, "RFCOMM sockets are not supported on this system")
PairErrors == {Exc("RuntimeError", 0, 0, "pairing failed")}
CloseError == Exc("OSError", 9, 0, "close failed")
SendError == Exc("OSError", 32, 0, "Broken pipe")

TimeoutErrnos == {60, 110, 10060}

\* variant of _is_timeout_error: the winerror attribute is not looked at
IsTimeoutErrorIgnoresWinerror(exc) ==
    IF exc.cls = "TimeoutError" THEN TRUE
    ELSE IF exc.cls = "OSError" THEN exc.errno \in TimeoutErrnos
    ELSE FALSE

_is_timeout_error(exc) ==
    IF exc.cls = "TimeoutError" THEN TRUE
    ELSE IF exc.cls = "OSError"
         THEN exc.errno \in TimeoutErrnos \/ exc.winerror \in TimeoutErrnos
    ELSE FALSE

RFCOMM_CHANNELS == <<1, 2, 3, 4, 5>>
CONNECT_TIMEOUT == 8

Range(seq) == {seq[i] : i \in 1..Len(seq)}

RECURSIVE Without(_, _)
Without(seq, x) ==
    IF seq = <<>> THEN <<>>
    ELSE IF Head(seq) = x THEN Without(Tail(seq), x)
    ELSE <<Head(seq)>> \o Without(Tail(seq), x)

\* variant of _resolve_rfcomm_channels: the resolved channel is not skipped
\* in the fallback list
ResolveChannelsKeepsDuplicate(single, channel) ==
    IF single THEN <<(IF channel # NoChannel THEN channel ELSE RFCOMM_CHANNELS[1])>>
    ELSE IF channel = NoChannel THEN RFCOMM_CHANNELS
    ELSE <<channel>> \o RFCOMM_CHANNELS

\* _resolve_rfcomm_channels, given the adapter's single_channel and the
\* channel its resolve_rfcomm_channel returned (NoChannel for None; RFCOMM
\* channels start at 1, so no adapter resolves a channel 0)
_resolve_rfcomm_channels(single, channel) ==
    IF single THEN <<(IF channel # NoChannel THEN channel ELSE RFCOMM_CHANNELS[1])>>
    ELSE IF channel = NoChannel THEN RFCOMM_CHANNELS
    ELSE <<channel>> \o Without(RFCOMM_CHANNELS, channel)

(***************************************************************************)
(* Errors raised by the backend, by the parts of their message.            *)
(***************************************************************************)
BackendError(head, advice, channels, pairing, last) ==
    [head |-> head, advice |-> advice, channels |-> channels,
     pairing |-> pairing, last |-> last]
NoError == BackendError(None, FALSE, <<>>, None, None)

TIMED_OUT == "Bluetooth connection timed out"
CONNECTION_FAILED == "Bluetooth connection failed"
NOT_SUPPORTED == "Bluetooth is not supported on this platform"
NOT_CONNECTED == "Not connected to a Bluetooth device"

\* variant of ConnectFailure: the pairing error is left out of the message
ConnectFailureDropsPairing(channels, pair_error, last_error) ==
    IF last_error # NoExc /\ _is_timeout_error(last_error)
    THEN BackendError(TIMED_OUT, TRUE, channels, None, None)
    ELSE BackendError(CONNECTION_FAILED, FALSE, channels, None,
                      (IF last_error # NoExc THEN last_error.text ELSE None))

\* variant of ConnectFailure: the generic message does not carry the last
\* connect error
ConnectFailureOmitsLast(channels, pair_error, last_error) ==
    IF last_error # NoExc /\ _is_timeout_error(last_error)
    THEN IF pair_error # NoExc
         THEN BackendError(TIMED_OUT, FALSE, channels, pair_error.text, None)
         ELSE BackendError(TIMED_OUT, TRUE, channels, None, None)
    ELSE BackendError(CONNECTION_FAILED, FALSE, channels,
                      (IF pair_error # NoExc THEN pair_error.text ELSE None), None)

\* lines 89-104 of _connect_blocking: the error raised after the loop
ConnectFailure(channels, pair_error, last_error) ==
    IF last_error # NoExc /\ _is_timeout_error(last_error)
    THEN IF pair_error # NoExc
         THEN BackendError(TIMED_OUT, FALSE, channels, pair_error.text, None)
         ELSE BackendError(TIMED_OUT, TRUE, channels, None, None)
    ELSE BackendError(CONNECTION_FAILED, FALSE, channels,
                      (IF pair_error # NoExc THEN pair_error.text ELSE None),
                      (IF last_error # NoExc THEN last_error.text ELSE None))

(***************************************************************************)
(* State.                                                                  *)
(***************************************************************************)
VARIABLES
    platform,     \* the OS the process runs on
    sock,         \* SppBackend._sock: a socket id, NoSock for None
    connected,    \* SppBackend._connected
    channel,      \* SppBackend._channel, NoChannel for None
    transport,    \* SppBackend._transport, None or a DeviceTransport
    socks,        \* every socket created so far, by id: its state
    pc,           \* where the caller is: "idle", "connect" or "write"
    cx,           \* the locals of the _connect_blocking call in progress or last
                  \* finished, with what it did: the channel resolved, the sockets
                  \* that existed before it, its attempts and their causes
    wx,           \* the locals of the _write_blocking call in progress or last finished
    wlog,         \* what that write did: its sends and sleeps, in order
    result,       \* how the last finished operation ended
    nconnects,    \* connect attempts started (bounded by MaxConnects)
    scanIn,       \* arguments and environment of the last scan
    scanOut,      \* what that scan returned or raised
    lock,         \* SppBackend._lock: the thread holding it, None when free
    th,           \* the worker threads calling the backend concurrently: where
                  \* each is in its call, and the call's locals
    wire,         \* the chunks sent on sockets by the writes that overlap, in order
    fnArgs,       \* the arguments of a pure function under study
    fnRet,        \* what the function returned for them
    _CLASSIC_ADAPTER, \* the module global of adapters/__init__.py, NoAdapter for None
    _BLE_ADAPTER,     \* the module global of adapters/__init__.py, NoAdapter for None
    instances,    \* how many adapter objects were constructed, by transport
    returned,     \* what the calls of the adapter selectors returned so far
    bsock,        \* the fields of the _BleakSocket under study, with the state of
                  \* its GATT session and of the event loop it created
    gui           \* the fields of the TiMiniPrintGUI window, its queue, the
                  \* coroutines submitted to the scheduler thread and not yet
                  \* done, and what the scheduler thread touched

backendVars == <<sock, connected, channel, transport>>
opVars == <<socks, pc, cx, wx, wlog, result, nconnects>>
scanVars == <<scanIn, scanOut>>
concVars == <<lock, th, wire>>
fnVars == <<fnArgs, fnRet>>
selVars == <<_CLASSIC_ADAPTER, _BLE_ADAPTER, instances, returned>>
bleVars == <<bsock>>
guiVars == <<gui>>
vars == <<platform, sock, connected, channel, transport, socks, pc, cx, wx, wlog,
          result, nconnects, scanIn, scanOut, lock, th, wire, fnArgs, fnRet,
          _CLASSIC_ADAPTER, _BLE_ADAPTER, instances, returned, bsock, gui>>

NoCx == [transport |-> None, adapter |-> None, pair_error |-> NoExc,
         resolved |-> NoChannel, before |-> 0, channels |-> <<>>, i |-> 0, last_error |-> NoExc, causes |-> {},
         tried |-> <<>>, close_raised |-> FALSE]
NoWx == [data |-> <<>>, chunk_size |-> 0, interval_ms |-> 0, offset |-> 0]
NoResult == [op |-> "none", status |-> "none", error |-> NoError, exc |-> NoExc]
Returned(op) == [op |-> op, status |-> "ok", error |-> NoError, exc |-> NoExc]
Raised(op, error) == [op |-> op, status |-> "raise", error |-> error, exc |-> NoExc]
Propagated(op, exc) == [op |-> op, status |-> "raise", error |-> NoError, exc |-> exc]

NoScanIn == [include_classic |-> FALSE, include_ble |-> FALSE,
             classic |-> NoAdapterEnv, ble |-> NoAdapterEnv]
NoScanOut == [status |-> "none", devices |-> <<>>, failures |-> <<>>, error |-> <<>>]

\* the threads of the executor that run the blocking calls
Threads == {"gui", "bg"}
IdleThread == [pc |-> "idle", calls |-> 0, op |-> None, data |-> <<>>, chunk_size |-> 0,
               offset |-> 0, s |-> NoSock, transport |-> None, channels |-> <<>>, i |-> 0,
               raised |-> None]
NoArgs == <<>>
NoRet == [status |-> "none"]

\* an adapter object: its class and which object of the class it is
Adapter(cls, id) == [cls |-> cls, id |-> id]
\* None where an adapter is expected
NoAdapter == Adapter(None, 0)

\* TiMiniPrintGUI.__init__: the UI-owned fields, the queue, the coroutines
\* submitted to BleLoop and not done, and the UI-owned fields and widget or
\* timer methods that code running on the BleLoop thread has touched
TiMiniPrintGUI ==
    [queue |-> <<>>, connected_model |-> FALSE, _connecting |-> FALSE,
     _paper_motion_action |-> None, _paper_motion_job |-> FALSE,
     _paper_motion_busy |-> FALSE, submitted |-> {}, touched |-> {}]

\* SppBackend.__init__
Init ==
    /\ platform \in Platforms
    /\ sock = NoSock
    /\ connected = FALSE
    /\ channel = NoChannel
    /\ transport = None
    /\ socks = <<>>
    /\ pc = "idle"
    /\ cx = NoCx
    /\ wx = NoWx
    /\ wlog = <<>>
    /\ result = NoResult
    /\ nconnects = 0
    /\ scanIn = NoScanIn
    /\ scanOut = NoScanOut
    /\ lock = None
    /\ th = [t \in Threads |-> IdleThread]
    /\ wire = <<>>
    /\ fnArgs = NoArgs
    /\ fnRet = NoRet
    /\ _CLASSIC_ADAPTER = NoAdapter
    /\ _BLE_ADAPTER = NoAdapter
    /\ instances = [tr \in DeviceTransport |-> 0]
    /\ returned = {}
    /\ bsock = NoBleSocket
    /\ gui = TiMiniPrintGUI

is_connected == connected

(***************************************************************************)
(* scan_with_failures                                                      *)
(***************************************************************************)
\* what the adapter of a transport can do on this platform
ScanEnvs(adapter, deviceInfos, maxDevs) ==
    IF adapter = None THEN {NoAdapterEnv}
    ELSE AdapterEnvs(deviceInfos, maxDevs) \ {NoAdapterEnv}

\* one call of scan_with_failures; its result is held until the caller
\* discards it
Scan(include_classic, include_ble) ==
    /\ scanOut = NoScanOut
    /\ \E classicEnv \in (IF include_classic
                       THEN ScanEnvs(_get_classic_adapter(platform), ClassicDeviceInfos, MaxDevs)
                       ELSE {NoAdapterEnv}),
       bleEnv \in (IF include_ble
                   THEN ScanEnvs(_get_ble_adapter(platform), BleDeviceInfos, MaxBleDevs)
                   ELSE {NoAdapterEnv}) :
        /\ scanIn' = [include_classic |-> include_classic, include_ble |-> include_ble,
                      classic |-> classicEnv, ble |-> bleEnv]
        /\ scanOut' = _scan_blocking(include_classic, include_ble, classicEnv, bleEnv)
        /\ UNCHANGED <<platform, backendVars, opVars, concVars, fnVars, selVars, bleVars, guiVars>>

\* the caller drops the devices and failures of a finished scan
ScanDiscard ==
    /\ scanOut # NoScanOut
    /\ scanIn' = NoScanIn
    /\ scanOut' = NoScanOut
    /\ UNCHANGED <<platform, backendVars, opVars, concVars, fnVars, selVars, bleVars, guiVars>>

ScanNext ==
    \/ \E ic \in BOOLEAN, ib \in BOOLEAN : Scan(ic, ib)
    \/ ScanDiscard

SpecScan == Init /\ [][ScanNext]_vars

(***************************************************************************)
(* SppBackend.connect / _connect_blocking                                  *)
(***************************************************************************)
\* variant of TimeoutAtConnect: settimeout is never called
TimeoutNeverSet(adapter) == 0

\* lines 77-79: the timeout a new socket carries when connect is called on
\* it; 0 stands for a socket whose timeout was never set
TimeoutAtConnect(adapter) ==
    IF HasSetTimeout(adapter) THEN CONNECT_TIMEOUT ELSE 0

Attempt(ch, id, timeout, outcome) ==
    [channel |-> ch, sock |-> id, timeout |-> timeout, outcome |-> outcome]

\* variant of ConnectAlreadyConnected: the backend takes over the transport
\* of the device it was asked to connect to
ConnectAdoptsDevice(t) ==
    /\ pc = "idle"
    /\ connected
    /\ result' = Returned("connect")
    /\ cx' = [NoCx EXCEPT !.transport = t]
    /\ wx' = NoWx
    /\ wlog' = <<>>
    /\ transport' = t
    /\ UNCHANGED <<platform, sock, connected, channel, socks, pc, nconnects, scanVars,
                   concVars, fnVars, selVars, bleVars, guiVars>>

\* lines 59-60: already connected, nothing is done, whatever the transport
\* of the device passed
ConnectAlreadyConnected(t) ==
    /\ pc = "idle"
    /\ connected
    /\ result' = Returned("connect")
    /\ cx' = [NoCx EXCEPT !.transport = t]
    /\ wx' = NoWx
    /\ wlog' = <<>>
    /\ UNCHANGED <<platform, backendVars, socks, pc, nconnects, scanVars, concVars, fnVars, selVars, bleVars, guiVars>>

\* lines 61-63: no adapter for the device's transport on this OS
ConnectNotSupported(t) ==
    /\ pc = "idle"
    /\ ~connected
    /\ _select_adapter(platform, t) = None
    /\ result' = Raised("connect", BackendError(NOT_SUPPORTED, FALSE, <<>>, None, None))
    /\ cx' = [NoCx EXCEPT !.transport = t]
    /\ wx' = NoWx
    /\ wlog' = <<>>
    /\ UNCHANGED <<platform, backendVars, socks, pc, nconnects, scanVars, concVars, fnVars, selVars, bleVars, guiVars>>

\* lines 64-72: ensure_paired (its error is kept, not raised) and the
\* candidate list
ConnectStart(t) ==
    /\ pc = "idle"
    /\ ~connected
    /\ _select_adapter(platform, t) # None
    /\ nconnects < MaxConnects
    /\ LET adapter == _select_adapter(platform, t)
       IN  \E pe \in PairErrors \cup {NoExc}, resolved \in ResolvedChannels(adapter) :
               cx' = [transport |-> t, adapter |-> adapter, pair_error |-> pe,
                      resolved |-> resolved, before |-> Len(socks),
                      channels |-> _resolve_rfcomm_channels(single_channel(adapter), resolved),
                      i |-> 1, last_error |-> NoExc, causes |-> {}, tried |-> <<>>,
                      close_raised |-> FALSE]
    /\ pc' = "connect"
    /\ nconnects' = nconnects + 1
    /\ result' = NoResult
    /\ wx' = NoWx
    /\ wlog' = <<>>
    /\ UNCHANGED <<platform, backendVars, socks, scanVars, concVars, fnVars, selVars, bleVars, guiVars>>

\* variant of _safe_close: a socket whose close raises stays open
SafeCloseGivesUpOnError(close_raises) == IF close_raises THEN "connected" ELSE "closed"

\* _safe_close(sock) for a socket: the state it leaves the socket in; close
\* was called on it, and what close raised is swallowed
_safe_close(close_raises) == "closed"

\* lines 73-88: one iteration of the loop over the candidates
ConnectTry ==
    /\ pc = "connect"
    /\ cx.i <= Len(cx.channels)
    /\ LET ch == cx.channels[cx.i]
           id == Len(socks) + 1
           timeout == TimeoutAtConnect(cx.adapter)
       IN  IF CreateSocketRaises(platform, cx.adapter)
           THEN \* create_socket raised: sock is None, _safe_close(None) does nothing
                /\ cx' = [cx EXCEPT !.last_error = CreateError,
                                    !.causes = @ \cup {CreateError.text},
                                    !.tried = Append(@, Attempt(ch, NoSock, 0, "nosocket")),
                                    !.i = @ + 1]
                /\ UNCHANGED <<backendVars, socks, pc, result>>
           ELSE \/ \* sock.connect returned
                   /\ socks' = Append(socks, "connected")
                   /\ sock' = id
                   /\ connected' = TRUE
                   /\ channel' = ch
                   /\ transport' = cx.transport
                   /\ cx' = [cx EXCEPT !.tried = Append(@, Attempt(ch, id, timeout, "ok"))]
                   /\ pc' = "idle"
                   /\ result' = Returned("connect")
                \/ \* sock.connect raised; _safe_close swallows what close raises
                   \E e \in ConnectErrors, close_raises \in BOOLEAN :
                       /\ socks' = Append(socks, _safe_close(close_raises))
                       /\ cx' = [cx EXCEPT !.last_error = e,
                                           !.causes = @ \cup {e.text},
                                           !.tried = Append(@, Attempt(ch, id, timeout, "error")),
                                           !.i = @ + 1,
                                           !.close_raised = @ \/ close_raises]
                       /\ UNCHANGED <<backendVars, pc, result>>
    /\ UNCHANGED <<platform, wx, wlog, nconnects, scanVars, concVars, fnVars, selVars, bleVars, guiVars>>

\* lines 89-104: every candidate failed
ConnectExhausted ==
    /\ pc = "connect"
    /\ cx.i > Len(cx.channels)
    /\ result' = Raised("connect", ConnectFailure(cx.channels, cx.pair_error, cx.last_error))
    /\ pc' = "idle"
    /\ UNCHANGED <<platform, backendVars, socks, cx, wx, wlog, nconnects, scanVars, concVars, fnVars, selVars, bleVars, guiVars>>

(***************************************************************************)
(* SppBackend.disconnect / _disconnect_blocking                            *)
(***************************************************************************)
\* variant of Disconnect: the fields are reset after close, not in a finally
\* block, so that a close that raises leaves them as they were
DisconnectNoFinally ==
    /\ pc = "idle"
    /\ \/ /\ sock = NoSock
          /\ result' = Returned("disconnect")
          /\ socks' = socks
          /\ sock' = NoSock /\ connected' = FALSE /\ channel' = NoChannel /\ transport' = None
       \/ /\ sock # NoSock
          /\ socks' = [socks EXCEPT ![sock] = "closed"]
          /\ \/ /\ result' = Returned("disconnect")
                /\ sock' = NoSock /\ connected' = FALSE
                /\ channel' = NoChannel /\ transport' = None
             \/ /\ result' = Propagated("disconnect", CloseError)
                /\ UNCHANGED backendVars
    /\ cx' = NoCx
    /\ wx' = NoWx
    /\ wlog' = <<>>
    /\ UNCHANGED <<platform, pc, nconnects, scanVars, concVars, fnVars, selVars, bleVars, guiVars>>

\* variant of Disconnect: the channel and the transport are not reset
DisconnectKeepsChannel ==
    /\ pc = "idle"
    /\ IF sock = NoSock
       THEN /\ result' = Returned("disconnect")
            /\ socks' = socks
       ELSE \E close_raises \in BOOLEAN :
                /\ socks' = [socks EXCEPT ![sock] = "closed"]
                /\ result' = IF close_raises THEN Propagated("disconnect", CloseError)
                             ELSE Returned("disconnect")
    /\ sock' = NoSock
    /\ connected' = FALSE
    /\ cx' = NoCx
    /\ wx' = NoWx
    /\ wlog' = <<>>
    /\ UNCHANGED <<platform, channel, transport, pc, nconnects, scanVars, concVars, fnVars,
                   selVars, bleVars, guiVars>>

\* _disconnect_blocking; what close raises leaves through the finally block
Disconnect ==
    /\ pc = "idle"
    /\ IF sock = NoSock
       THEN /\ result' = Returned("disconnect")
            /\ socks' = socks
       ELSE \E close_raises \in BOOLEAN :
                /\ socks' = [socks EXCEPT ![sock] = "closed"]
                /\ result' = IF close_raises THEN Propagated("disconnect", CloseError)
                             ELSE Returned("disconnect")
    /\ sock' = NoSock
    /\ connected' = FALSE
    /\ channel' = NoChannel
    /\ transport' = None
    /\ cx' = NoCx
    /\ wx' = NoWx
    /\ wlog' = <<>>
    /\ UNCHANGED <<platform, pc, nconnects, scanVars, concVars, fnVars, selVars, bleVars, guiVars>>

(***************************************************************************)
(* SppBackend.write / _write_blocking                                      *)
(***************************************************************************)
\* a payload of n bytes; byte i tells its position
Payload(n) == [i \in 1..n |-> i % 256]

\* (payload length, chunk_size) pairs a caller passes: small ones, and the
\* 1000-byte payload sent with the default chunk size of cli.py
WriteSizes ==
    {<<n, c>> : n \in 0..MaxLen, c \in 1..MaxChunk} \cup {<<1000, 180>>}
Intervals == {0, 4}

Min(a, b) == IF a < b THEN a ELSE b

\* variant of Slice: the slice ends one byte too far
SliceOneTooMany(data, offset, chunk_size) ==
    SubSeq(data, offset + 1, Min(offset + chunk_size + 1, Len(data)))

\* data[offset : offset + chunk_size]
Slice(data, offset, chunk_size) ==
    SubSeq(data, offset + 1, Min(offset + chunk_size, Len(data)))

SendEvent(id, chunk) == [kind |-> "send", sock |-> id, data |-> chunk, ms |-> 0]
SleepEvent(ms) == [kind |-> "sleep", sock |-> NoSock, data |-> <<>>, ms |-> ms]

WriteArgs(data, chunk_size, interval_ms) ==
    [data |-> data, chunk_size |-> chunk_size, interval_ms |-> interval_ms, offset |-> 0]

\* variant of WriteNotConnected: the check of lines 125-126 is missing and
\* the loop is entered
WriteNotConnectedEntersLoop(data, chunk_size, interval_ms) ==
    /\ pc = "idle"
    /\ sock = NoSock \/ ~connected
    /\ wx' = WriteArgs(data, chunk_size, interval_ms)
    /\ wlog' = <<>>
    /\ pc' = "write"
    /\ result' = NoResult
    /\ cx' = NoCx
    /\ UNCHANGED <<platform, backendVars, socks, nconnects, scanVars, concVars, fnVars, selVars, bleVars, guiVars>>

\* lines 125-126
WriteNotConnected(data, chunk_size, interval_ms) ==
    /\ pc = "idle"
    /\ sock = NoSock \/ ~connected
    /\ result' = Raised("write", BackendError(NOT_CONNECTED, FALSE, <<>>, None, None))
    /\ wx' = WriteArgs(data, chunk_size, interval_ms)
    /\ wlog' = <<>>
    /\ cx' = NoCx
    /\ UNCHANGED <<platform, backendVars, socks, pc, nconnects, scanVars, concVars, fnVars, selVars, bleVars, guiVars>>

\* lines 127-128
WriteStart(data, chunk_size, interval_ms) ==
    /\ pc = "idle"
    /\ sock # NoSock /\ connected
    /\ wx' = WriteArgs(data, chunk_size, interval_ms)
    /\ wlog' = <<>>
    /\ pc' = "write"
    /\ result' = NoResult
    /\ cx' = NoCx
    /\ UNCHANGED <<platform, backendVars, socks, nconnects, scanVars, concVars, fnVars, selVars, bleVars, guiVars>>

\* lines 129-135: one iteration of the loop; _send_all calls the socket's
\* sendall (every socket class of the adapters has one), which may raise
WriteChunk ==
    /\ pc = "write"
    /\ wx.offset < Len(wx.data)
    /\ LET chunk == Slice(wx.data, wx.offset, wx.chunk_size)
       IN  \/ /\ wlog' = Append(wlog, SendEvent(sock, chunk))
                         \o (IF wx.interval_ms > 0 THEN <<SleepEvent(wx.interval_ms)>> ELSE <<>>)
              /\ wx' = [wx EXCEPT !.offset = @ + Len(chunk)]
              /\ UNCHANGED <<pc, result>>
           \/ /\ result' = Propagated("write", SendError)
              /\ pc' = "idle"
              /\ UNCHANGED <<wx, wlog>>
    /\ UNCHANGED <<platform, backendVars, socks, cx, nconnects, scanVars, concVars, fnVars, selVars, bleVars, guiVars>>

\* the loop condition fails: the payload is sent
WriteReturn ==
    /\ pc = "write"
    /\ wx.offset >= Len(wx.data)
    /\ result' = Returned("write")
    /\ pc' = "idle"
    /\ UNCHANGED <<platform, backendVars, socks, cx, wx, wlog, nconnects, scanVars, concVars, fnVars, selVars, bleVars, guiVars>>

Next ==
    \/ \E t \in DeviceTransport : ConnectAlreadyConnected(t)
    \/ \E t \in DeviceTransport : ConnectNotSupported(t)
    \/ \E t \in DeviceTransport : ConnectStart(t)
    \/ ConnectTry
    \/ ConnectExhausted
    \/ Disconnect
    \/ \E sz \in WriteSizes, ms \in Intervals : WriteNotConnected(Payload(sz[1]), sz[2], ms)
    \/ \E sz \in WriteSizes, ms \in Intervals : WriteStart(Payload(sz[1]), sz[2], ms)
    \/ WriteChunk
    \/ WriteReturn

Spec == Init /\ [][Next]_vars

(***************************************************************************)
(* The backend called from several threads.  connect, write and disconnect *)
(* are coroutines that hand their blocking body to the executor, so two    *)
(* calls in flight run their bodies on different threads.  A step is a     *)
(* read or a write of a field of the backend, or a call on a socket,       *)
(* together with the thread-local work around it; time.sleep touches no    *)
(* state and is left out.                                                  *)
(***************************************************************************)
ConcPlatforms == {"windows", "other"}

InitConc == Init /\ platform \in ConcPlatforms

\* the thread starts a call with fresh locals
Calling(t, op) == [IdleThread EXCEPT !.calls = th[t].calls + 1, !.op = op]

CanCall(t) == th[t].pc = "idle" /\ th[t].calls < MaxThreadCalls

InWrite(t) == th[t].pc \in {"w_lock", "w_send"}

\* (payload length, chunk_size) of the writes: no chunk, one chunk, two chunks
ConcWriteSizes == {<<0, 1>>, <<1, 1>>, <<2, 1>>}

NO_SEND == "Bluetooth socket does not support send"
NO_CLOSE == "'NoneType' object has no attribute 'close'"

WireEvent(t, call, id, chunk) == [thread |-> t, call |-> call, sock |-> id, data |-> chunk]

\* _write_blocking lines 125-130: the connected check, and the first test
\* of the loop
CWriteCall(t, data, chunk_size) ==
    /\ CanCall(t)
    /\ IF sock = NoSock \/ ~connected
       THEN /\ th' = [th EXCEPT ![t] = [Calling(t, "write") EXCEPT !.raised = NOT_CONNECTED]]
            /\ wire' = wire
       ELSE /\ th' = [th EXCEPT ![t] =
                        [Calling(t, "write") EXCEPT
                            !.pc = IF data = <<>> THEN "idle" ELSE "w_lock",
                            !.data = data, !.chunk_size = chunk_size]]
            /\ wire' = IF \E u \in Threads \ {t} : InWrite(u) THEN wire ELSE <<>>
    /\ UNCHANGED <<platform, backendVars, opVars, scanVars, lock, fnVars, selVars, bleVars, guiVars>>

\* lines 131-132: the lock is taken, self._sock is read and _send_all is
\* called on it; with self._sock None _send_all finds neither sendall nor
\* send and raises, and the with statement releases the lock
CWriteLock(t) ==
    /\ th[t].pc = "w_lock"
    /\ lock = None
    /\ IF sock = NoSock
       THEN /\ th' = [th EXCEPT ![t].pc = "idle", ![t].raised = NO_SEND]
            /\ lock' = None
       ELSE /\ th' = [th EXCEPT ![t].pc = "w_send", ![t].s = sock]
            /\ lock' = t
    /\ UNCHANGED <<platform, backendVars, opVars, scanVars, wire, fnVars, selVars, bleVars, guiVars>>

\* line 132-133, then 129-130: sendall returns or raises and the lock is
\* released; on a socket that was closed meanwhile it raises
CWriteSent(t) ==
    /\ th[t].pc = "w_send"
    /\ LET chunk == Slice(th[t].data, th[t].offset, th[t].chunk_size)
           offset == th[t].offset + Len(chunk)
       IN  \/ /\ socks[th[t].s] = "connected"
              /\ wire' = Append(wire, WireEvent(t, th[t].calls, th[t].s, chunk))
              /\ th' = [th EXCEPT ![t].offset = offset,
                                  ![t].pc = IF offset < Len(th[t].data)
                                            THEN "w_lock" ELSE "idle"]
           \/ /\ th' = [th EXCEPT ![t].pc = "idle", ![t].raised = SendError.text]
              /\ wire' = wire
    /\ lock' = None
    /\ UNCHANGED <<platform, backendVars, opVars, scanVars, fnVars, selVars, bleVars, guiVars>>

\* _connect_blocking lines 59-72
CConnectCall(t, tr) ==
    /\ CanCall(t)
    /\ LET adapter == _select_adapter(platform, tr)
       IN  IF connected
           THEN th' = [th EXCEPT ![t] = Calling(t, "connect")]
           ELSE IF adapter = None
           THEN th' = [th EXCEPT ![t] = [Calling(t, "connect") EXCEPT !.raised = NOT_SUPPORTED]]
           ELSE \E resolved \in ResolvedChannels(adapter) :
                    th' = [th EXCEPT ![t] =
                             [Calling(t, "connect") EXCEPT
                                 !.pc = "c_try", !.transport = tr, !.i = 1,
                                 !.channels = _resolve_rfcomm_channels(
                                                  single_channel(adapter), resolved)]]
    /\ UNCHANGED <<platform, backendVars, opVars, scanVars, lock, wire, fnVars, selVars, bleVars, guiVars>>

\* lines 73-81 and 86-88: one candidate; a socket whose connect returned is
\* stored in self._sock, one whose connect raised is closed
CConnectTry(t) ==
    /\ th[t].pc = "c_try"
    /\ th[t].i <= Len(th[t].channels)
    /\ LET id == Len(socks) + 1
       IN  \/ /\ socks' = Append(socks, "connected")
              /\ sock' = id
              /\ th' = [th EXCEPT ![t].pc = "c_flag", ![t].s = id]
           \/ /\ socks' = Append(socks, "closed")
              /\ sock' = sock
              /\ th' = [th EXCEPT ![t].i = @ + 1]
    /\ UNCHANGED <<platform, connected, channel, transport, pc, cx, wx, wlog, result,
                   nconnects, scanVars, lock, wire, fnVars, selVars, bleVars, guiVars>>

\* lines 82-85
CConnectFlag(t) ==
    /\ th[t].pc = "c_flag"
    /\ connected' = TRUE
    /\ channel' = th[t].channels[th[t].i]
    /\ transport' = th[t].transport
    /\ th' = [th EXCEPT ![t].pc = "idle"]
    /\ UNCHANGED <<platform, sock, opVars, scanVars, lock, wire, fnVars, selVars, bleVars, guiVars>>

\* lines 89-104
CConnectExhausted(t) ==
    /\ th[t].pc = "c_try"
    /\ th[t].i > Len(th[t].channels)
    /\ th' = [th EXCEPT ![t].pc = "idle", ![t].raised = CONNECTION_FAILED]
    /\ UNCHANGED <<platform, backendVars, opVars, scanVars, lock, wire, fnVars, selVars, bleVars, guiVars>>

\* _disconnect_blocking lines 111-115
CDisconnectCall(t) ==
    /\ CanCall(t)
    /\ IF sock = NoSock
       THEN /\ connected' = FALSE
            /\ channel' = NoChannel
            /\ transport' = None
            /\ th' = [th EXCEPT ![t] = Calling(t, "disconnect")]
       ELSE /\ th' = [th EXCEPT ![t] = [Calling(t, "disconnect") EXCEPT !.pc = "d_close"]]
            /\ UNCHANGED <<connected, channel, transport>>
    /\ UNCHANGED <<platform, sock, opVars, scanVars, lock, wire, fnVars, selVars, bleVars, guiVars>>

\* lines 116-117: self._sock is read again and closed; no lock is taken
CDisconnectClose(t) ==
    /\ th[t].pc = "d_close"
    /\ IF sock = NoSock
       THEN /\ th' = [th EXCEPT ![t].pc = "d_sock", ![t].raised = NO_CLOSE]
            /\ socks' = socks
       ELSE \E close_raises \in BOOLEAN :
                /\ socks' = [socks EXCEPT ![sock] = "closed"]
                /\ th' = [th EXCEPT ![t].pc = "d_sock",
                                    ![t].raised = IF close_raises THEN CloseError.text
                                                  ELSE None]
    /\ UNCHANGED <<platform, backendVars, pc, cx, wx, wlog, result, nconnects, scanVars,
                   lock, wire, fnVars, selVars, bleVars, guiVars>>

\* line 119
CDisconnectSock(t) ==
    /\ th[t].pc = "d_sock"
    /\ sock' = NoSock
    /\ th' = [th EXCEPT ![t].pc = "d_flag"]
    /\ UNCHANGED <<platform, connected, channel, transport, opVars, scanVars, lock, wire,
                   fnVars, selVars, bleVars, guiVars>>

\* lines 120-122
CDisconnectFlag(t) ==
    /\ th[t].pc = "d_flag"
    /\ connected' = FALSE
    /\ channel' = NoChannel
    /\ transport' = None
    /\ th' = [th EXCEPT ![t].pc = "idle"]
    /\ UNCHANGED <<platform, sock, opVars, scanVars, lock, wire, fnVars, selVars, bleVars, guiVars>>

NextConc ==
    \/ \E t \in Threads, sz \in ConcWriteSizes : CWriteCall(t, Payload(sz[1]), sz[2])
    \/ \E t \in Threads : CWriteLock(t)
    \/ \E t \in Threads : CWriteSent(t)
    \/ \E t \in Threads, tr \in DeviceTransport : CConnectCall(t, tr)
    \/ \E t \in Threads : CConnectTry(t)
    \/ \E t \in Threads : CConnectFlag(t)
    \/ \E t \in Threads : CConnectExhausted(t)
    \/ \E t \in Threads : CDisconnectCall(t)
    \/ \E t \in Threads : CDisconnectClose(t)
    \/ \E t \in Threads : CDisconnectSock(t)
    \/ \E t \in Threads : CDisconnectFlag(t)

SpecConc == InitConc /\ [][NextConc]_vars

(***************************************************************************)
(* The adapter selectors _get_classic_adapter and _get_ble_adapter called  *)
(* from the threads of the executor.  A call reads the global, constructs  *)
(* the adapter and stores it if the global was None, and returns the       *)
(* global; another thread can run between any two of these steps.          *)
(***************************************************************************)
AdapterGlobal(tr) == IF tr = BLE THEN _BLE_ADAPTER ELSE _CLASSIC_ADAPTER

\* _get_classic_adapter() or _get_ble_adapter() is called
GetAdapterCall(t, tr) ==
    /\ CanCall(t)
    /\ th' = [th EXCEPT ![t] = [Calling(t, "get_adapter") EXCEPT
                                    !.pc = "g_check", !.transport = tr]]
    /\ UNCHANGED <<platform, backendVars, opVars, scanVars, lock, wire, fnVars, selVars, bleVars, guiVars>>

\* if _XXX_ADAPTER is None:
GetAdapterCheck(t) ==
    /\ th[t].pc = "g_check"
    /\ th' = [th EXCEPT ![t].pc = IF AdapterGlobal(th[t].transport) = NoAdapter
                                  THEN "g_make" ELSE "g_return"]
    /\ UNCHANGED <<platform, backendVars, opVars, scanVars, lock, wire, fnVars, selVars, bleVars, guiVars>>

\* _XXX_ADAPTER = _XxxAdapter(), or None on an OS without the transport
GetAdapterMake(t) ==
    /\ th[t].pc = "g_make"
    /\ LET tr == th[t].transport
           cls == _select_adapter(platform, tr)
           made == IF cls = None THEN NoAdapter ELSE Adapter(cls, instances[tr] + 1)
       IN  /\ instances' = IF cls = None THEN instances
                            ELSE [instances EXCEPT ![tr] = instances[tr] + 1]
           /\ _CLASSIC_ADAPTER' = IF tr = CLASSIC THEN made ELSE _CLASSIC_ADAPTER
           /\ _BLE_ADAPTER' = IF tr = BLE THEN made ELSE _BLE_ADAPTER
    /\ th' = [th EXCEPT ![t].pc = "g_return"]
    /\ UNCHANGED <<platform, backendVars, opVars, scanVars, lock, wire, fnVars, returned,
                   bleVars, guiVars>>

\* return _XXX_ADAPTER
GetAdapterReturn(t) ==
    /\ th[t].pc = "g_return"
    /\ returned' = returned \cup {[transport |-> th[t].transport,
                                    adapter |-> AdapterGlobal(th[t].transport)]}
    /\ th' = [th EXCEPT ![t].pc = "idle"]
    /\ UNCHANGED <<platform, backendVars, opVars, scanVars, lock, wire, fnVars,
                   _CLASSIC_ADAPTER, _BLE_ADAPTER, instances, bleVars, guiVars>>

NextSelect ==
    \E t \in Threads :
        \/ \E tr \in DeviceTransport : GetAdapterCall(t, tr)
        \/ GetAdapterCheck(t)
        \/ GetAdapterMake(t)
        \/ GetAdapterReturn(t)

SpecSelect == Init /\ [][NextSelect]_vars

(***************************************************************************)
(* DeviceInfo.dedupe and DeviceInfo.merge called on their own.  The        *)
(* arguments are drawn when the behaviour starts; the actions apply the    *)
(* function to them.                                                       *)
(***************************************************************************)
\* the state of the process on an OS while only a pure function is studied
InitFnOn(os) ==
    /\ platform = os
    /\ sock = NoSock
    /\ connected = FALSE
    /\ channel = NoChannel
    /\ transport = None
    /\ socks = <<>>
    /\ pc = "idle"
    /\ cx = NoCx
    /\ wx = NoWx
    /\ wlog = <<>>
    /\ result = NoResult
    /\ nconnects = 0
    /\ scanIn = NoScanIn
    /\ scanOut = NoScanOut
    /\ lock = None
    /\ th = [t \in Threads |-> IdleThread]
    /\ wire = <<>>
    /\ _CLASSIC_ADAPTER = NoAdapter
    /\ _BLE_ADAPTER = NoAdapter
    /\ instances = [tr \in DeviceTransport |-> 0]
    /\ returned = {}
    /\ bsock = NoBleSocket
    /\ gui = TiMiniPrintGUI
    /\ fnRet = NoRet

InitFn == InitFnOn("linux")

FnUnchanged ==
    UNCHANGED <<platform, backendVars, opVars, scanVars, concVars, selVars, bleVars, guiVars, fnArgs>>

\* devices of two keys: one address seen on both transports
DedupeKeys == {<<1, CLASSIC>>, <<1, BLE>>}
DedupeDeviceInfos ==
    {DeviceInfo(n, k[1], p, k[2]) : n \in Names, k \in DedupeKeys, p \in PairedValues}

InitDedupe == InitFn /\ fnArgs \in SeqsUpTo(DedupeDeviceInfos, MaxList)

\* results = DeviceInfo.dedupe(devices)
Dedupe ==
    /\ fnRet = NoRet
    /\ fnRet' = [status |-> "once", once |-> dedupe(fnArgs), twice |-> <<>>]
    /\ FnUnchanged

\* DeviceInfo.dedupe(results)
DedupeAgain ==
    /\ fnRet.status = "once"
    /\ fnRet' = [fnRet EXCEPT !.status = "twice", !.twice = dedupe(fnRet.once)]
    /\ FnUnchanged

NextDedupe == Dedupe \/ DedupeAgain

SpecDedupe == InitDedupe /\ [][NextDedupe]_vars

\* records of one device: every pair of names, of equal length or not
MergeNames == {<<>>, <<1>>, <<2>>, <<1, 2>>}
MergeDeviceInfos == {DeviceInfo(n, 1, p, CLASSIC) : n \in MergeNames, p \in PairedValues}

InitMerge ==
    InitFn /\ fnArgs \in MergeDeviceInfos \X MergeDeviceInfos \X MergeDeviceInfos

\* a.merge(b), b.merge(a), a.merge(b).merge(c) and a.merge(b.merge(c))
Merge ==
    /\ fnRet = NoRet
    /\ LET a == fnArgs[1]
           b == fnArgs[2]
           c == fnArgs[3]
       IN  fnRet' = [status |-> "merged", ab |-> merge(a, b), ba |-> merge(b, a),
                     ab_c |-> merge(merge(a, b), c), a_bc |-> merge(a, merge(b, c))]
    /\ FnUnchanged

\* the caller drops the results
MergeDiscard ==
    /\ fnRet.status = "merged"
    /\ fnRet' = [status |-> "dropped"]
    /\ FnUnchanged

NextMerge == Merge \/ MergeDiscard

SpecMerge == InitMerge /\ [][NextMerge]_vars

(***************************************************************************)
(* PrinterModelRegistry.detect_with_origin called on its own, on a         *)
(* registry of up to MaxModels models.                                     *)
(***************************************************************************)
\* "", "ABC", "ABCDE", "abcd", "M1"
HeadNames == {<<>>, <<101, 102, 103>>, <<101, 102, 103, 104, 105>>, <<1, 2, 3, 4>>,
              <<113, 51>>}
\* "AB", "ABCDEF"
ModelNos == {<<101, 102>>, <<101, 102, 103, 104, 105, 106>>}
PrinterModels == {PrinterModel(no, head) : no \in ModelNos, head \in HeadNames}

\* "", "ABCDEF123", "abcdx", "XYZ Printer"
DeviceNames == {<<>>, <<101, 102, 103, 104, 105, 106, 51, 52, 53>>, <<1, 2, 3, 4, 24>>,
                <<124, 125, 126, 90, 116, 18, 9, 14, 20, 5, 18>>}
\* no address, "11:AA:BB"
DeviceAddresses == {<<>>, <<51, 51, 91, 101, 101, 91, 102, 102>>}

\* no alias file; the prefix "xyz" mapped to "M1" and the suffix "AA:BB"
\* mapped to "ABC"
AliasRegistries ==
    { PrinterModelAliasRegistry(<<>>, <<>>),
      PrinterModelAliasRegistry(
          <<PrinterModelHeadAlias(<<(<<24, 25, 26>>)>>, <<113, 51>>)>>,
          <<PrinterModelMacAlias(<<(<<101, 101, 91, 102, 102>>)>>, <<101, 102, 103>>)>>) }

\* an alias file that maps the prefix "XYZ" to "M1" and the suffix "AA:BB" to
\* "M2", with models "M1", "M2" and "ABC" that no device name below matches
M1 == <<113, 51>>
M2 == <<113, 52>>
OverrideAliases ==
    PrinterModelAliasRegistry(
        <<PrinterModelHeadAlias(<<(<<124, 125, 126>>)>>, M1)>>,
        <<PrinterModelMacAlias(<<(<<101, 101, 91, 102, 102>>)>>, M2)>>)
OverrideModels ==
    {PrinterModel(<<101, 102>>, M1), PrinterModel(<<101, 102, 103, 104, 105, 106>>, M2),
     PrinterModel(<<101, 102>>, <<101, 102, 103>>)}
\* "XYZPrinter", "xyz printer", "Printer"
OverrideNames == {<<124, 125, 126, 116, 18, 9, 14, 20, 5, 18>>,
                  <<24, 25, 26, 90, 16, 18, 9, 14, 20, 5, 18>>,
                  <<116, 18, 9, 14, 20, 5, 18>>}
\* no address, "11:AA:BB", "11:aa:bb", "11:AA:CC", "11AABB"
OverrideAddresses == {<<>>, <<51, 51, 91, 101, 101, 91, 102, 102>>,
                      <<51, 51, 91, 1, 1, 91, 2, 2>>,
                      <<51, 51, 91, 101, 101, 91, 103, 103>>,
                      <<51, 51, 101, 101, 102, 102>>}

DetectArgs(models, aliases, name, address) ==
    [models |-> models, aliases |-> aliases, name |-> name, address |-> address]

InitDetect ==
    /\ InitFn
    /\ fnArgs \in {DetectArgs(models, aliases, name, address) :
                       models \in SeqsUpTo(PrinterModels, MaxModels),
                       aliases \in AliasRegistries,
                       name \in DeviceNames, address \in DeviceAddresses}
                  \cup
                  {DetectArgs(models, OverrideAliases, name, address) :
                       models \in SeqsUpTo(OverrideModels, MaxModels),
                       name \in OverrideNames, address \in OverrideAddresses}

\* registry.detect_with_origin(name, address)
Detect ==
    /\ fnRet = NoRet
    /\ fnRet' = [status |-> "detected",
                 match |-> detect_with_origin(fnArgs.models, fnArgs.aliases,
                                              fnArgs.name, fnArgs.address)]
    /\ FnUnchanged

NextDetect == Detect

SpecDetect == InitDetect /\ [][NextDetect]_vars

(***************************************************************************)
(* The methods of the platform adapters called on their own.  The          *)
(* environment of the call is drawn when the behaviour starts.             *)
(***************************************************************************)
\* what `bluetoothctl info` reports: paired, not paired, or the run failed
InfoReports == {"yes", "no", "failed"}
\* `bluetoothctl pair`: return code 0, another return code, or no answer in
\* 15 seconds
PairOutcomes == {"ok", "failed", "timeout"}

LinuxPairEnvs ==
    {[call |-> "linux_ensure_paired", has_bluetoothctl |-> h, info1 |-> i1, pair |-> p,
      trust |-> t, info2 |-> i2] :
         h \in BOOLEAN, i1 \in InfoReports, p \in PairOutcomes,
         t \in {"ok", "failed"}, i2 \in InfoReports}

\* a device as a scan method reports it: "" or "a", at one of the addresses
FoundDevices == {[name |-> n, address |-> a] : n \in {<<>>, <<1>>}, a \in Addresses}
\* the BLE library: not importable or its discovery raised, or its devices
BleakEnvs ==
    {[ok |-> FALSE, found |-> <<>>]}
    \cup {[ok |-> TRUE, found |-> ds] : ds \in SeqsUpTo(FoundDevices, MaxBleDevs)}

\* bluetoothctl: not installed, its `devices` run failed, or what it printed
LinuxScanEnvs ==
    {[call |-> "linux_scan_blocking", tool |-> t, lines |-> <<>>, paired_listing |-> {},
      info_paired |-> {}, bleak |-> b] : t \in {"missing", "failed"}, b \in BleakEnvs}
    \cup
    {[call |-> "linux_scan_blocking", tool |-> "ok", lines |-> ls, paired_listing |-> pl,
      info_paired |-> ip, bleak |-> b] :
         ls \in SeqsUpTo(FoundDevices, MaxDevs), pl \in SUBSET Addresses,
         ip \in SUBSET Addresses, b \in BleakEnvs}

\* the Win32 inquiry: the OS library cannot be loaded, or the records it
\* returns and the addresses it reports as authenticated or remembered
InquiryEnvs ==
    {[ok |-> FALSE, found |-> <<>>, remembered |-> {}]}
    \cup {[ok |-> TRUE, found |-> ds, remembered |-> r] :
             ds \in SeqsUpTo(FoundDevices, MaxDevs), r \in {{}, Addresses}}
\* the managed runtime: it raised, or the services it enumerated
WinRtEnvs ==
    {[ok |-> FALSE, found |-> <<>>]}
    \cup {[ok |-> TRUE, found |-> ds] : ds \in SeqsUpTo(FoundDevices, MaxBleDevs)}

WindowsScanEnvs ==
    {[call |-> "windows_scan_blocking", inquiry |-> i, bleak |-> b, winrt |-> w,
      cached |-> {}] : i \in InquiryEnvs, b \in BleakEnvs, w \in WinRtEnvs}

\* what the WinRT pairing and the Win32 pairing raise
WinRtPairErrors == {"pairing failed: status", "pairing is not available for this device"}
Win32PairErrors == {"OSError"}
\* a rescan raised, or its mapping has the address, or has not
RescanOutcomes == {"raises", "with", "without"}

WindowsPairEnvs ==
    {[call |-> "windows_ensure_paired", known |-> k, winrt |-> w, rescan1 |-> r1,
      win32 |-> p, win32_error |-> e, rescan2 |-> r2] :
         k \in BOOLEAN,
         w \in {[ok |-> TRUE, error |-> None]}
                   \cup {[ok |-> FALSE, error |-> x] : x \in WinRtPairErrors},
         r1 \in RescanOutcomes, p \in {"true", "false", "raises"},
         e \in Win32PairErrors, r2 \in RescanOutcomes}

InitAdapter ==
    \/ /\ \/ fnArgs \in LinuxPairEnvs
          \/ fnArgs \in LinuxScanEnvs
       /\ InitFnOn("linux")
    \/ /\ \/ fnArgs \in WindowsPairEnvs
          \/ fnArgs \in WindowsScanEnvs
       /\ InitFnOn("windows")

\* adapter.ensure_paired(address) on Linux
LinuxEnsurePaired ==
    /\ fnRet = NoRet
    /\ fnArgs.call = "linux_ensure_paired"
    /\ fnRet' = [status |-> "called", out |-> linux_ensure_paired(fnArgs)]
    /\ FnUnchanged

\* adapter.scan_blocking(timeout) on Linux
LinuxScan ==
    /\ fnRet = NoRet
    /\ fnArgs.call = "linux_scan_blocking"
    /\ fnRet' = [status |-> "called", out |-> linux_scan_blocking(fnArgs)]
    /\ FnUnchanged

\* adapter.scan_blocking(timeout) on Windows
WindowsScan ==
    /\ fnRet = NoRet
    /\ fnArgs.call = "windows_scan_blocking"
    /\ fnRet' = [status |-> "called", out |-> windows_scan_blocking(fnArgs)]
    /\ FnUnchanged

\* adapter.ensure_paired(address) on Windows
WindowsEnsurePaired ==
    /\ fnRet = NoRet
    /\ fnArgs.call = "windows_ensure_paired"
    /\ fnRet' = [status |-> "called", out |-> windows_ensure_paired(fnArgs)]
    /\ FnUnchanged

NextAdapter ==
    \/ LinuxEnsurePaired
    \/ LinuxScan
    \/ WindowsScan
    \/ WindowsEnsurePaired

SpecAdapter == InitAdapter /\ [][NextAdapter]_vars

(***************************************************************************)
(* SppBackend.write for every chunk_size, 0 included, on sockets whose     *)
(* send always returns.  The log of the sends is not kept here.  The       *)
(* executor thread that runs _write_blocking keeps running, so the turns   *)
(* of its loop and its return are taken when they can be.                  *)
(***************************************************************************)
\* (payload length, chunk_size) pairs, chunk_size 0 among them
AnyWriteSizes == {<<n, c>> : n \in 0..MaxLen, c \in 0..MaxChunk}

InitWrite == Init /\ platform = "linux"

\* lines 129-135, one turn of the loop: _send_all returns for the chunk
WriteTurn ==
    /\ pc = "write"
    /\ wx.offset < Len(wx.data)
    /\ LET chunk == Slice(wx.data, wx.offset, wx.chunk_size)
       IN  wx' = [wx EXCEPT !.offset = @ + Len(chunk)]
    /\ UNCHANGED <<platform, backendVars, socks, pc, cx, wlog, result, nconnects, scanVars,
                   concVars, fnVars, selVars, bleVars, guiVars>>

NextWrite ==
    \/ \E t \in DeviceTransport : ConnectStart(t)
    \/ ConnectTry
    \/ ConnectExhausted
    \/ Disconnect
    \/ \E sz \in AnyWriteSizes, ms \in Intervals :
          WriteNotConnected(Payload(sz[1]), sz[2], ms)
    \/ \E sz \in AnyWriteSizes, ms \in Intervals : WriteStart(Payload(sz[1]), sz[2], ms)
    \/ WriteTurn
    \/ WriteReturn

SpecWrite ==
    InitWrite /\ [][NextWrite]_vars /\ WF_vars(WriteTurn) /\ WF_vars(WriteReturn)

(***************************************************************************)
(* One _BleakSocket from its creation by the backend's connect to its      *)
(* close: the backend creates it, calls its connect and, when that raised, *)
(* closes it at once (_safe_close); a socket that connected is closed by   *)
(* the backend's disconnect.                                               *)
(***************************************************************************)
BlePlatforms == {"linux", "windows", "macos"}
BleEnvs ==
    {[call |-> "ble_socket", pairing_hint |-> h, address |-> a, client |-> c, pair |-> p,
      write_char |-> w, disconnect |-> d] :
         h \in {None, "true", "false"}, a \in Addresses,
         c \in {"no_bleak", "raises", "ok"},
         p \in {"absent", "true", "none", "false", "raises"},
         w \in BOOLEAN, d \in {"ok", "raises"}}

InitBle ==
    /\ fnArgs \in BleEnvs
    /\ \E os \in BlePlatforms : InitFnOn(os)

BleUnchanged ==
    UNCHANGED <<platform, backendVars, opVars, scanVars, concVars, selVars, fnVars, guiVars>>

\* sock = adapter.create_socket(pairing_hint)
BleCreateSocket ==
    /\ bsock.at = "none"
    /\ bsock' = _BleakSocket(fnArgs.pairing_hint, platform)
    /\ BleUnchanged

\* sock.connect((device.address, channel))
BleConnect ==
    /\ bsock.at = "new"
    /\ bsock' = ble_connect(bsock, fnArgs, fnArgs.address)
    /\ BleUnchanged

\* _safe_close(sock) in the except branch of _connect_blocking
BleSafeClose ==
    /\ bsock.at = "raised"
    /\ bsock' = ble_close(bsock, fnArgs)
    /\ BleUnchanged

\* self._sock.close() in _disconnect_blocking
BleDisconnect ==
    /\ bsock.at = "connected"
    /\ bsock' = ble_close(bsock, fnArgs)
    /\ BleUnchanged

NextBle ==
    \/ BleCreateSocket
    \/ BleConnect
    \/ BleSafeClose
    \/ BleDisconnect

SpecBle == InitBle /\ [][NextBle]_vars

(***************************************************************************)
(* app/gui.py.  Two threads: the Tk thread runs the handlers of the        *)
(* buttons, the timer callbacks and _process_queue; the BleLoop thread     *)
(* runs the submitted coroutines and then their done callbacks.  How a     *)
(* coroutine ends (it returns or raises) is drawn when its callback runs.  *)
(***************************************************************************)
GuiMessage(action, payload) == [action |-> action, payload |-> payload]
StatusMessage == GuiMessage("status", None)
ErrorMessage == GuiMessage("error", None)

GuiUnchanged ==
    UNCHANGED <<platform, backendVars, opVars, scanVars, concVars, selVars, fnVars, bleVars>>

\* room for n more messages in the queue
QueueHasRoom(n) == Len(gui.queue) + n <= MaxQueue

\* self.queue.put(...), for each message in turn
Put(g, messages) == [g EXCEPT !.queue = g.queue \o messages]

\* self.ble_loop.submit(coro, callback=done)
Submit(g, coro) == [g EXCEPT !.submitted = g.submitted \cup {coro}]

\* TiMiniPrintGUI._stop_paper_motion
_stop_paper_motion(g) ==
    [g EXCEPT !._paper_motion_action = None, !._paper_motion_job = FALSE]

\* what _stop_paper_motion writes and calls
StopPaperMotionTouches(g) ==
    {"_paper_motion_action"}
        \cup (IF g._paper_motion_job THEN {"after_cancel", "_paper_motion_job"} ELSE {})

\* TiMiniPrintGUI._send_paper_motion
_send_paper_motion(g, selected) ==
    IF g._paper_motion_busy THEN g
    ELSE IF ~selected THEN _stop_paper_motion(Put(g, <<ErrorMessage>>))
    ELSE IF ~g.connected_model THEN _stop_paper_motion(Put(g, <<ErrorMessage>>))
    ELSE Submit([g EXCEPT !._paper_motion_busy = TRUE], "paper_motion")

\* TiMiniPrintGUI._schedule_paper_motion
_schedule_paper_motion(g) ==
    IF g._paper_motion_action = None THEN g ELSE [g EXCEPT !._paper_motion_job = TRUE]

\* TiMiniPrintGUI._set_connected_state; resolves tells whether
\* resolve_model_with_origin returns a model for the device
_set_connected_state(g, is_connected_now, resolves) ==
    LET cleared == [g EXCEPT !._connecting = FALSE, !.connected_model = FALSE]
    IN  IF is_connected_now /\ resolves THEN [cleared EXCEPT !.connected_model = TRUE]
        ELSE IF is_connected_now
        THEN _stop_paper_motion(Submit(Put(cleared, <<ErrorMessage>>), "disconnect"))
        ELSE _stop_paper_motion(cleared)

\* TiMiniPrintGUI.scan, on the Tk thread
GuiScan ==
    /\ QueueHasRoom(1)
    /\ "scan" \notin gui.submitted
    /\ gui' = Submit(Put(gui, <<StatusMessage>>), "scan")
    /\ GuiUnchanged

\* TiMiniPrintGUI.connect, on the Tk thread
GuiConnect ==
    /\ QueueHasRoom(2)
    /\ "connect" \notin gui.submitted
    /\ \E selected \in BOOLEAN :
          gui' = IF ~selected THEN Put(gui, <<ErrorMessage>>)
                 ELSE Submit(Put(gui, <<StatusMessage, GuiMessage("connecting", TRUE)>>),
                             "connect")
    /\ GuiUnchanged

\* TiMiniPrintGUI.disconnect, on the Tk thread
GuiDisconnect ==
    /\ QueueHasRoom(1)
    /\ "disconnect" \notin gui.submitted
    /\ gui' = Submit(Put(gui, <<StatusMessage>>), "disconnect")
    /\ GuiUnchanged

\* TiMiniPrintGUI.print_file, on the Tk thread
GuiPrintFile ==
    /\ QueueHasRoom(1)
    /\ "print" \notin gui.submitted
    /\ \E ready \in BOOLEAN :
          gui' = IF ~ready \/ ~gui.connected_model THEN Put(gui, <<ErrorMessage>>)
                 ELSE Submit(Put(gui, <<StatusMessage>>), "print")
    /\ GuiUnchanged

\* TiMiniPrintGUI._start_paper_motion, on the Tk thread
GuiStartPaperMotion ==
    /\ QueueHasRoom(1)
    /\ \E action \in {"feed", "retract"}, selected \in BOOLEAN :
          LET stopped == _stop_paper_motion(gui)
              started == [stopped EXCEPT !._paper_motion_action = action]
          IN  gui' = _schedule_paper_motion(_send_paper_motion(started, selected))
    /\ GuiUnchanged

\* TiMiniPrintGUI._paper_motion_tick, on the Tk thread when the timer fires
GuiPaperMotionTick ==
    /\ QueueHasRoom(1)
    /\ gui._paper_motion_job
    /\ \E selected \in BOOLEAN :
          gui' = IF gui._paper_motion_action = None THEN gui
                 ELSE _schedule_paper_motion(
                          _send_paper_motion(gui, selected))
    /\ GuiUnchanged

\* TiMiniPrintGUI._stop_paper_motion as the handler of a button release
GuiStopPaperMotion ==
    /\ gui._paper_motion_action # None
    /\ gui' = _stop_paper_motion(gui)
    /\ GuiUnchanged

\* one turn of the loop of TiMiniPrintGUI._process_queue, on the Tk thread
GuiProcessQueue ==
    /\ gui.queue # <<>>
    /\ LET message == Head(gui.queue)
           taken == [gui EXCEPT !.queue = Tail(gui.queue)]
       IN  \E resolves \in BOOLEAN :
              gui' = IF message.action = "connected"
                     THEN _set_connected_state(taken, TRUE, resolves)
                     ELSE IF message.action = "disconnected"
                     THEN _set_connected_state(taken, FALSE, resolves)
                     ELSE IF message.action = "connecting"
                     THEN [taken EXCEPT !._connecting = message.payload]
                     ELSE taken
    /\ GuiUnchanged

\* a done callback is running on the BleLoop thread
Done(g, coro) == [g EXCEPT !.submitted = g.submitted \ {coro}]

\* done of TiMiniPrintGUI.scan
ScanDone ==
    /\ "scan" \in gui.submitted
    /\ QueueHasRoom(2)
    /\ \E raised \in BOOLEAN :
          gui' = IF raised THEN Put(Done(gui, "scan"), <<ErrorMessage>>)
                 ELSE Put(Done(gui, "scan"), <<GuiMessage("devices", None), StatusMessage>>)
    /\ GuiUnchanged

\* done of TiMiniPrintGUI.connect
ConnectDone ==
    /\ "connect" \in gui.submitted
    /\ QueueHasRoom(2)
    /\ \E raised \in BOOLEAN :
          gui' = IF raised
                 THEN Put(Done(gui, "connect"),
                          <<ErrorMessage, GuiMessage("connecting", FALSE)>>)
                 ELSE Put(Done(gui, "connect"),
                          <<StatusMessage, GuiMessage("connected", None)>>)
    /\ GuiUnchanged

\* done of TiMiniPrintGUI.disconnect; the disconnect submitted by
\* _set_connected_state has no callback
DisconnectDone ==
    /\ "disconnect" \in gui.submitted
    /\ QueueHasRoom(2)
    /\ \E raised \in BOOLEAN :
          gui' = IF raised THEN Put(Done(gui, "disconnect"), <<ErrorMessage>>)
                 ELSE Put(Done(gui, "disconnect"),
                          <<StatusMessage, GuiMessage("disconnected", None)>>)
    /\ GuiUnchanged

\* done of TiMiniPrintGUI.print_file
PrintDone ==
    /\ "print" \in gui.submitted
    /\ QueueHasRoom(1)
    /\ \E raised \in BOOLEAN :
          gui' = IF raised THEN Put(Done(gui, "print"), <<ErrorMessage>>)
                 ELSE Put(Done(gui, "print"), <<StatusMessage>>)
    /\ GuiUnchanged

\* done of TiMiniPrintGUI._send_paper_motion
PaperMotionDone ==
    /\ "paper_motion" \in gui.submitted
    /\ QueueHasRoom(1)
    /\ \E raised \in BOOLEAN :
          LET free == [Done(gui, "paper_motion") EXCEPT
                           !._paper_motion_busy = FALSE,
                           !.touched = gui.touched \cup {"_paper_motion_busy"}]
          IN  gui' = IF raised
                     THEN [_stop_paper_motion(Put(free, <<ErrorMessage>>)) EXCEPT
                               !.touched = free.touched \cup StopPaperMotionTouches(free)]
                     ELSE free
    /\ GuiUnchanged

NextGui ==
    \/ GuiScan
    \/ GuiConnect
    \/ GuiDisconnect
    \/ GuiPrintFile
    \/ GuiStartPaperMotion
    \/ GuiPaperMotionTick
    \/ GuiStopPaperMotion
    \/ GuiProcessQueue
    \/ ScanDone
    \/ ConnectDone
    \/ DisconnectDone
    \/ PrintDone
    \/ PaperMotionDone

\* the window behaves alike on every OS
InitGui == Init /\ platform = "linux"

SpecGui == InitGui /\ [][NextGui]_vars

(***************************************************************************)
(* DeviceResolver.resolve_printer_device called on its own: the scan it    *)
(* starts finds what the adapters of the two transports report.            *)
(***************************************************************************)
\* "b0000000-0000-0000-0000-000000000000": a device named by a device id
DeviceIdName ==
    <<2, 50, 50, 50, 50, 50, 50, 50, 92, 50, 50, 50, 50, 92, 50, 50, 50, 50, 92,
      50, 50, 50, 50, 92, 50, 50, 50, 50, 50, 50, 50, 50, 50, 50, 50, 50>>
\* the names of the classic devices: "ab", "b", "c" and the device id
ResolveNames == {<<1, 2>>, <<2>>, <<3>>, DeviceIdName}
\* the names of the BLE devices: none, "b"
ResolveBleNames == {<<>>, <<2>>}
\* the models "a" and "b", no alias file
ResolveRegistry ==
    [models |-> <<PrinterModel(<<26, 26>>, <<1>>), PrinterModel(<<26, 25>>, <<2>>)>>,
     aliases |-> PrinterModelAliasRegistry(<<>>, <<>>)]
\* no hint, "B", "a", "zz", "0a:00:00:00:00:0b", "B0:00:00:00:00:0A" and the
\* device id in upper case
ResolveHints == {<<>>, <<102>>, <<1>>, <<26, 26>>, lower(AddressText(1)), AddressText(2),
                 upper(DeviceIdName)}

ResolveClassicEnvs ==
    {[adapter |-> TRUE, exc |-> e, devices |-> <<>>] : e \in {"ErrA"}}
    \cup {[adapter |-> TRUE, exc |-> None, devices |-> ds] :
              ds \in SeqsUpTo({DeviceInfo(n, a, None, CLASSIC) :
                                  n \in ResolveNames, a \in Addresses}, MaxDevs)}
ResolveBleEnvs ==
    {[adapter |-> TRUE, exc |-> e, devices |-> <<>>] : e \in {"ErrB"}}
    \cup {[adapter |-> TRUE, exc |-> None, devices |-> ds] :
              ds \in SeqsUpTo({DeviceInfo(n, a, None, BLE) :
                                  n \in ResolveBleNames, a \in Addresses}, MaxBleDevs)}

ResolveArgs(name_or_address, tr, classicEnv, bleEnv) ==
    [name_or_address |-> name_or_address, transport |-> tr,
     classicEnv |-> classicEnv, bleEnv |-> bleEnv]

\* the adapter of a transport the scan leaves out is not called
InitResolve ==
    /\ InitFn
    /\ \E tr \in {None, CLASSIC, BLE}, hint \in ResolveHints :
          \E classicEnv \in (IF tr = BLE THEN {NoAdapterEnv} ELSE ResolveClassicEnvs),
             bleEnv \in (IF tr = CLASSIC THEN {NoAdapterEnv} ELSE ResolveBleEnvs) :
              fnArgs = ResolveArgs(hint, tr, classicEnv, bleEnv)

\* resolver.resolve_printer_device(name_or_address, transport); what its scan
\* returned is kept next to its outcome
ResolvePrinterDevice ==
    /\ fnRet = NoRet
    /\ fnRet' = [status |-> "resolved",
                 scan |-> ResolverScan(fnArgs.transport, fnArgs.classicEnv, fnArgs.bleEnv),
                 out |-> resolve_printer_device(ResolveRegistry, fnArgs.name_or_address,
                                                fnArgs.transport, fnArgs.classicEnv,
                                                fnArgs.bleEnv)]
    /\ FnUnchanged

NextResolve == ResolvePrinterDevice

SpecResolve == InitResolve /\ [][NextResolve]_vars

(***************************************************************************)
(* Properties of scan_with_failures (checked under SpecScan).              *)
(***************************************************************************)
Keys(devices) == {DevKey(devices[i]) : i \in 1..Len(devices)}

\* a transport of the last scan was attempted and failed / its cause
ScanAttempted(t) == IF t = CLASSIC THEN scanIn.include_classic ELSE scanIn.include_ble
ScanEnvOf(t) == IF t = CLASSIC THEN scanIn.classic ELSE scanIn.ble
ScanFailed(t) ==
    ScanAttempted(t) /\ (~ScanEnvOf(t).adapter \/ ScanEnvOf(t).exc # None)
ScanCause(t) ==
    IF ScanEnvOf(t).adapter THEN ScanEnvOf(t).exc
    ELSE IF t = CLASSIC THEN CLASSIC_NOT_SUPPORTED ELSE BLE_NOT_SUPPORTED
ScanGaveDevices(t) == ScanAttempted(t) /\ ScanEnvOf(t).devices # <<>>

\* the text names the transport followed by its cause
TextNames(text, t, cause) ==
    \E i \in 1..(Len(text) - 2) :
        text[i] = t /\ text[i + 1] = ": " /\ text[i + 2] = cause

\* C1: with both transports requested, a classic scan that returns at least
\* one device makes the call return exactly the deduplicated classic
\* devices (one entry per classic key, no BLE entry) and an empty failure
\* list, whatever the BLE scan did.
C1_ClassicPriority ==
    (scanIn.include_classic /\ scanIn.include_ble /\ scanIn.classic.devices # <<>>) =>
        /\ scanOut.status = "return"
        /\ scanOut.failures = <<>>
        /\ scanOut.devices = dedupe(scanIn.classic.devices)
        /\ Keys(scanOut.devices) = Keys(scanIn.classic.devices)
        /\ Len(scanOut.devices) = Cardinality(Keys(scanIn.classic.devices))
        /\ \A i \in 1..Len(scanOut.devices) : scanOut.devices[i].transport = CLASSIC

\* classic returned two devices while the BLE scan raised
C1_Witness ==
    /\ scanIn.include_classic /\ scanIn.include_ble
    /\ Len(scanIn.classic.devices) = 2
    /\ scanIn.ble.exc # None
    /\ scanOut.status = "return"
    /\ Len(scanOut.devices) = 2
    /\ scanOut.failures = <<>>

\* C2: when every attempted transport failed (scan raised, or no adapter
\* on this OS), the call raises one error whose text holds, for each
\* attempted transport, its name and its cause; with one transport
\* attempted as with two.
C2_AllFailedRaises ==
    ((\E t \in DeviceTransport : ScanAttempted(t))
     /\ (\A t \in DeviceTransport : ScanAttempted(t) => ScanFailed(t))) =>
        /\ scanOut.status = "raise"
        /\ \A t \in DeviceTransport :
              ScanAttempted(t) => TextNames(scanOut.error, t, ScanCause(t))

\* both transports attempted, both scans raised, each with its own cause
C2_Witness ==
    /\ scanIn.include_classic /\ scanIn.include_ble
    /\ ScanFailed(CLASSIC) /\ ScanFailed(BLE)
    /\ scanIn.classic.exc # None /\ scanIn.ble.exc # None
    /\ scanIn.classic.exc # scanIn.ble.exc
    /\ scanOut.status = "raise"

\* C3: when no attempted transport returned a device and at least one
\* attempted transport completed without error, the call returns an empty
\* device list and exactly one ScanFailure per attempted transport that
\* failed, carrying that transport's cause.
C3_PartialFailureReturns ==
    ((\A t \in DeviceTransport : ~ScanGaveDevices(t))
     /\ (\E t \in DeviceTransport : ScanAttempted(t) /\ ~ScanFailed(t))) =>
        /\ scanOut.status = "return"
        /\ scanOut.devices = <<>>
        /\ Len(scanOut.failures) = Cardinality({t \in DeviceTransport : ScanFailed(t)})
        /\ \A t \in DeviceTransport :
              ScanFailed(t) =>
                  \E i \in 1..Len(scanOut.failures) :
                      scanOut.failures[i] = ScanFailure(t, ScanCause(t))
        /\ \A i \in 1..Len(scanOut.failures) : ScanFailed(scanOut.failures[i].transport)

\* the classic scan raised, the BLE scan completed and found nothing
C3_Witness ==
    /\ scanIn.include_classic /\ scanIn.include_ble
    /\ scanIn.classic.exc # None
    /\ scanIn.ble.adapter /\ scanIn.ble.exc = None /\ scanIn.ble.devices = <<>>
    /\ scanOut.status = "return"
    /\ Len(scanOut.failures) = 1

(***************************************************************************)
(* Properties of connect (checked under Spec).                             *)
(***************************************************************************)
TriedChannels == [k \in 1..Len(cx.tried) |-> cx.tried[k].channel]
NoDuplicates(seq) == \A i, j \in 1..Len(seq) : i # j => seq[i] # seq[j]
Increasing(seq) == \A i, j \in 1..Len(seq) : i < j => seq[i] < seq[j]

\* the last connect went through all its candidates and raised
ConnectExhaustedResult ==
    /\ pc = "idle"
    /\ result.op = "connect"
    /\ result.status = "raise"
    /\ result.error.head # NOT_SUPPORTED

\* C4: the candidate list of a connect is the single value (resolved
\* channel, or 1 if none) for a single-channel adapter; otherwise the
\* resolved channel first (if any) followed by 1,2,3,4,5 in that order
\* with the resolved channel skipped.  No channel appears twice; no
\* resolved channel gives [1,2,3,4,5], resolved channel 3 gives
\* [3,1,2,4,5]; a connect that fails has tried exactly this list.
C4_ChannelCandidates ==
    cx.adapter # None =>
        /\ IF single_channel(cx.adapter)
           THEN cx.channels = <<(IF cx.resolved = NoChannel THEN 1 ELSE cx.resolved)>>
           ELSE /\ cx.resolved = NoChannel => cx.channels = <<1, 2, 3, 4, 5>>
                /\ cx.resolved # NoChannel =>
                      /\ Head(cx.channels) = cx.resolved
                      /\ Range(Tail(cx.channels)) = (1..5) \ {cx.resolved}
                      /\ Increasing(Tail(cx.channels))
                /\ cx.resolved = 3 => cx.channels = <<3, 1, 2, 4, 5>>
        /\ NoDuplicates(cx.channels)
        /\ ConnectExhaustedResult => TriedChannels = cx.channels

\* resolve_rfcomm_channel returned 3 and all of 3,1,2,4,5 were tried
C4_Witness ==
    /\ ConnectExhaustedResult
    /\ ~single_channel(cx.adapter)
    /\ cx.resolved = 3
    /\ TriedChannels = <<3, 1, 2, 4, 5>>

\* the parts of C5 that do not concern the timeout: candidates are tried
\* in list order, every connect call is made on a socket created for it,
\* nothing is tried after a success, and the socket and channel of the
\* successful attempt are the ones the backend retains
TriedInOrderOnFreshSockets ==
    /\ Len(cx.tried) <= Len(cx.channels)
    /\ \A k \in 1..Len(cx.tried) : cx.tried[k].channel = cx.channels[k]
    /\ \A k \in 1..Len(cx.tried) :
          cx.tried[k].sock # NoSock =>
              /\ cx.tried[k].sock > cx.before
              /\ cx.tried[k].sock <= Len(socks)
              /\ \A j \in 1..Len(cx.tried) : j # k => cx.tried[j].sock # cx.tried[k].sock
    /\ \A k \in 1..Len(cx.tried) :
          cx.tried[k].outcome = "ok" =>
              /\ k = Len(cx.tried)
              /\ pc = "idle"
              /\ result = Returned("connect")
              /\ sock = cx.tried[k].sock
              /\ channel = cx.tried[k].channel
              /\ connected
              /\ socks[sock] = "connected"
    /\ (result = Returned("connect") /\ cx.tried # <<>>) =>
          cx.tried[Len(cx.tried)].outcome = "ok"

PairingFailed == cx.pair_error # NoExc
AllAttemptsFailed ==
    /\ Len(cx.tried) = Len(cx.channels)
    /\ \A k \in 1..Len(cx.tried) : cx.tried[k].outcome # "ok"

\* C6: a pairing failure is not fatal to connect.  When ensure_paired
\* raised, the channel attempts still run; if one succeeds connect returns
\* with the backend connected and no error; the pairing error is surfaced
\* only when every channel attempt failed too, and then it is in the
\* error raised.
C6_PairingNotFatal ==
    /\ (PairingFailed /\ pc = "idle") => cx.tried # <<>>
    /\ (PairingFailed /\ cx.tried # <<>> /\ cx.tried[Len(cx.tried)].outcome = "ok") =>
          /\ result = Returned("connect")
          /\ connected /\ sock # NoSock
    /\ (result.op = "connect" /\ result.error.pairing # None) => AllAttemptsFailed
    /\ (PairingFailed /\ ConnectExhaustedResult) =>
          /\ AllAttemptsFailed
          /\ result.error.pairing = cx.pair_error.text

\* pairing failed, an attempt failed, a later attempt connected
C6_Witness ==
    /\ PairingFailed
    /\ Len(cx.tried) >= 2
    /\ cx.tried[Len(cx.tried)].outcome = "ok"
    /\ result = Returned("connect")
    /\ connected

\* the errors of ConnectErrors that are timeouts: the TimeoutError, the
\* OSError with errno 110, the OSError with winerror 10060
TimeoutTexts == {"timed out", "ETIMEDOUT", "WSAETIMEDOUT"}

\* C7: when every candidate failed, connect raises one error classified by
\* the last attempt's error: a timeout gives the timed-out message, with
\* the pairing failure detail when pairing failed and the 'on, in range,
\* and paired' advice otherwise; any other error gives the
\* connection-failed message listing every channel tried, the pairing
\* error if any, and the connect error.
C7_FailureClassified ==
    ConnectExhaustedResult =>
        /\ AllAttemptsFailed
        /\ result.error.channels = TriedChannels
        /\ IF cx.last_error.text \in TimeoutTexts
           THEN /\ result.error.head = TIMED_OUT
                /\ PairingFailed =>
                      /\ result.error.pairing = cx.pair_error.text
                      /\ ~result.error.advice
                /\ ~PairingFailed =>
                      /\ result.error.advice
                      /\ result.error.pairing = None
           ELSE /\ result.error.head = CONNECTION_FAILED
                /\ ~result.error.advice
                /\ result.error.pairing = (IF PairingFailed THEN cx.pair_error.text ELSE None)
                /\ result.error.last = cx.last_error.text

\* the last of several attempts timed out (by winerror) after pairing failed
C7_Witness ==
    /\ ConnectExhaustedResult
    /\ Len(cx.tried) >= 5
    /\ cx.last_error.text = "WSAETIMEDOUT"
    /\ PairingFailed
    /\ result.error.head = TIMED_OUT
    /\ result.error.pairing = cx.pair_error.text

\* the error raised by connect carries this text as one of its causes
Mentions(error, text) == error.last = text \/ error.pairing = text

SeveralCauses == ConnectExhaustedResult /\ Cardinality(cx.causes) >= 2

\* C8 as stated: when connect fails after several attempts that failed for
\* different reasons, the error raised enumerates every channel tried and
\* the error of each failed attempt, not only the last one's, together
\* with the pairing error when pairing failed.
C8_Original ==
    SeveralCauses =>
        /\ result.error.channels = TriedChannels
        /\ \A c \in cx.causes : Mentions(result.error, c)
        /\ PairingFailed => Mentions(result.error, cx.pair_error.text)

\* C8 amended: the error raised enumerates every channel tried and the
\* pairing error when pairing failed; of the attempts' errors it carries
\* at most the last one's (in the connection-failed message; the
\* timed-out message carries none), and no earlier attempt's error.
C8_Amended ==
    SeveralCauses =>
        /\ result.error.channels = TriedChannels
        /\ PairingFailed => Mentions(result.error, cx.pair_error.text)
        /\ IF cx.last_error.text \in TimeoutTexts
           THEN result.error.last = None
           ELSE result.error.last = cx.last_error.text
        /\ \A c \in cx.causes \ {cx.last_error.text} : ~Mentions(result.error, c)

\* attempts were refused and not found, pairing failed, connect raised
C8_Witness ==
    /\ SeveralCauses
    /\ PairingFailed
    /\ "Connection refused" \in cx.causes
    /\ cx.last_error.text = "Bluetooth SPP service not found for device"
    /\ result.error.head = CONNECTION_FAILED

(***************************************************************************)
(* Properties of write (checked under Spec).                               *)
(***************************************************************************)
IsSend(e) == e.kind = "send"
Sends == SelectSeq(wlog, IsSend)
SendPositions == {i \in 1..Len(wlog) : IsSend(wlog[i])}

RECURSIVE Flatten(_)
Flatten(chunks) ==
    IF chunks = <<>> THEN <<>> ELSE Head(chunks).data \o Flatten(Tail(chunks))

\* time slept in the events i..j of the write log
RECURSIVE SleptIn(_, _)
SleptIn(i, j) == IF i > j THEN 0 ELSE wlog[i].ms + SleptIn(i + 1, j)

ConsecutiveSends(p, q) ==
    /\ p \in SendPositions /\ q \in SendPositions /\ p < q
    /\ \A m \in SendPositions : ~(p < m /\ m < q)

CeilDiv(a, b) == (a + b - 1) \div b

\* what C9 says of every write apart from its worked example: a write on
\* a connected backend with chunk_size >= 1 that returns has sent
\* ceil(len(data)/chunk_size) chunks on the live socket, in payload order:
\* every chunk but possibly the last has chunk_size bytes, the chunks
\* concatenated are the payload, and interval_ms is slept between each two
\* consecutive chunks; an empty payload sends nothing.  A write stopped by
\* a failing send has sent a proper prefix of the payload.
ChunkedInOrder ==
    /\ result = Returned("write") =>
          /\ wx.chunk_size >= 1
          /\ Len(Sends) = CeilDiv(Len(wx.data), wx.chunk_size)
          /\ \A k \in 1..Len(Sends) :
                /\ Sends[k].sock = sock
                /\ k < Len(Sends) => Len(Sends[k].data) = wx.chunk_size
                /\ Len(Sends[k].data) >= 1 /\ Len(Sends[k].data) <= wx.chunk_size
          /\ Flatten(Sends) = wx.data
          /\ \A p, q \in SendPositions :
                ConsecutiveSends(p, q) => SleptIn(p + 1, q - 1) = wx.interval_ms
          /\ wx.data = <<>> => wlog = <<>>
    /\ (result.op = "write" /\ result.exc = SendError) =>
          /\ Len(Flatten(Sends)) < Len(wx.data)
          /\ Flatten(Sends) = SubSeq(wx.data, 1, Len(Flatten(Sends)))

ChunkSizes == [k \in 1..Len(Sends) |-> Len(Sends[k].data)]
ExampleWrite ==
    result = Returned("write") /\ Len(wx.data) = 1000 /\ wx.chunk_size = 180

\* C9 as stated: the chunking above, and a 1000-byte payload with
\* chunk_size 180 is sent as [180,180,180,180,180,80].
C9_Original ==
    /\ ChunkedInOrder
    /\ ExampleWrite => ChunkSizes = <<180, 180, 180, 180, 180, 80>>

\* C9 amended: the chunking above, and a 1000-byte payload with
\* chunk_size 180 is sent as [180,180,180,180,180,100].
C9_Amended ==
    /\ ChunkedInOrder
    /\ ExampleWrite => ChunkSizes = <<180, 180, 180, 180, 180, 100>>

\* the 1000-byte payload went out in six chunks with sleeps between them
C9_Witness ==
    /\ ExampleWrite
    /\ wx.interval_ms > 0
    /\ Len(Sends) = 6
    /\ Len(wlog) = 12

\* C10: a write on a backend that is not connected (never connected, after
\* a failed connect, after disconnect) raises the not-connected error,
\* sends nothing on any socket and leaves the backend and every socket as
\* they were.
C10_WriteNotConnected ==
    [][ (pc = "idle" /\ (sock = NoSock \/ ~connected) /\ wx' # NoWx) =>
            /\ result' = Raised("write", BackendError(NOT_CONNECTED, FALSE, <<>>, None, None))
            /\ wlog' = <<>>
            /\ pc' = "idle"
            /\ UNCHANGED <<sock, connected, channel, transport, socks>> ]_vars

\* a write was refused after an earlier connection had been closed
C10_Witness ==
    /\ result = Raised("write", BackendError(NOT_CONNECTED, FALSE, <<>>, None, None))
    /\ wx # NoWx
    /\ \E i \in 1..Len(socks) : socks[i] = "closed"
    /\ sock = NoSock /\ ~connected /\ channel = NoChannel /\ transport = None

(***************************************************************************)
(* Properties of disconnect and of the error paths (checked under Spec).   *)
(***************************************************************************)
Idle == sock = NoSock /\ ~is_connected /\ channel = NoChannel /\ transport = None

\* C13: from any reachable backend state two consecutive disconnect calls
\* both return without raising, and so does a disconnect issued before any
\* connect: every disconnect returns without raising, and afterwards the
\* backend is Idle (no socket, is_connected() false, no channel, no
\* transport).
C13_DisconnectNeverRaises ==
    result.op = "disconnect" => (result = Returned("disconnect") /\ Idle)

\* C14: if the socket's close raises during disconnect, the backend still
\* ends Idle (socket reference, connected flag, channel and transport all
\* cleared); a following write fails as not connected and a following
\* connect starts a fresh attempt instead of returning as already
\* connected.
C14_CloseRaisesStillIdle ==
    [][ /\ result' = Propagated("disconnect", CloseError) =>
              (sock' = NoSock /\ ~connected' /\ channel' = NoChannel /\ transport' = None)
        /\ (result = Propagated("disconnect", CloseError) /\ wx' # NoWx) =>
              /\ result' = Raised("write", BackendError(NOT_CONNECTED, FALSE, <<>>, None, None))
              /\ wlog' = <<>>
        /\ (result = Propagated("disconnect", CloseError)
            /\ (pc' = "connect" \/ result'.op = "connect")) =>
              /\ result' # Returned("connect")
              /\ pc' = "connect" => (cx'.tried = <<>> /\ cx'.before = Len(socks)) ]_vars

\* close raised in disconnect: the socket is closed and the backend Idle
C14_Witness ==
    /\ result = Propagated("disconnect", CloseError)
    /\ Idle
    /\ \E i \in 1..Len(socks) : socks[i] = "closed"

\* C15: there is an error path back to Idle from every state: after a
\* connect that failed on all candidates, and after a write on a Connected
\* backend whose chunk send raised, is_connected() is false and no socket
\* is retained.
C15_ErrorPathToIdle ==
    (ConnectExhaustedResult \/ result = Propagated("write", SendError)) =>
        (~is_connected /\ sock = NoSock)

(***************************************************************************)
(* Properties of dedupe and merge (checked under SpecDedupe, SpecMerge     *)
(* and SpecScan).                                                          *)
(***************************************************************************)
\* the positions of the list that hold a record of the key
Duplicates(devices, key) == {j \in 1..Len(devices) : DevKey(devices[j]) = key}

PairedOf(devices, dups) ==
    IF \E j \in dups : devices[j].paired = "true" THEN "true"
    ELSE IF \E j \in dups : devices[j].paired = "false" THEN "false"
    ELSE None

\* C16: for any list of DeviceInfo, dedupe returns exactly one entry per
\* distinct (address, transport) key of the list and no other entry; the
\* entry's name is a longest name among the duplicates of its key, and its
\* paired value is true if any duplicate is true, otherwise false if any
\* duplicate is false, otherwise unknown.
C16_DedupeOnePerKey ==
    fnRet.status \in {"once", "twice"} =>
        LET out == fnRet.once
        IN  /\ Keys(out) = Keys(fnArgs)
            /\ Len(out) = Cardinality(Keys(fnArgs))
            /\ \A i \in 1..Len(out) :
                  LET dups == Duplicates(fnArgs, DevKey(out[i]))
                  IN  /\ \E j \in dups : fnArgs[j].name = out[i].name
                      /\ \A j \in dups : Len(fnArgs[j].name) <= Len(out[i].name)
                      /\ out[i].paired = PairedOf(fnArgs, dups)

\* three records of one device, the longest name and the only paired=true
\* not on the first, give one entry
C16_Witness ==
    /\ fnRet.status = "once"
    /\ Len(fnArgs) = 3
    /\ Cardinality(Keys(fnArgs)) = 1
    /\ fnArgs[1].name = <<1>> /\ fnArgs[1].paired = None
    /\ fnArgs[2].name = <<1, 2>> /\ fnArgs[2].paired = "false"
    /\ fnArgs[3].name = <<>> /\ fnArgs[3].paired = "true"
    /\ Len(fnRet.once) = 1
    /\ fnRet.once[1].name = <<1, 2>>
    /\ fnRet.once[1].paired = "true"

\* C17: dedupe is idempotent: dedupe(dedupe(x)) equals dedupe(x) as a list,
\* the same entries in the same order.
C17_DedupeIdempotent ==
    fnRet.status = "twice" => fnRet.twice = fnRet.once

\* a list that dedupe both merges and reorders was deduplicated twice
C17_Witness ==
    /\ fnRet.status = "twice"
    /\ Len(fnArgs) = 3
    /\ Len(fnRet.once) = 2
    /\ fnRet.once[1] # fnArgs[1]
    /\ fnRet.once[2].name # <<>>
    /\ fnRet.twice = fnRet.once

\* C18: merge is commutative and associative: for all a, b, c of one
\* (address, transport) key, with any names and any paired values,
\* merge(a,b) = merge(b,a) and merge(merge(a,b),c) = merge(a,merge(b,c)).
C18_MergeCommutativeAssociative ==
    fnRet.status = "merged" =>
        /\ fnRet.ab = fnRet.ba
        /\ fnRet.ab_c = fnRet.a_bc

\* (name, address, transport) of a is not after that of b
KeyNotAfter(a, b) ==
    \/ StrLess(a.name, b.name)
    \/ /\ a.name = b.name
       /\ \/ a.address < b.address
          \/ a.address = b.address /\ TransportRank(a.transport) <= TransportRank(b.transport)

\* C19: every device list returned by scan_with_failures, on every outcome
\* of the classic and BLE scans, holds no two entries of the same
\* (address, transport) and is sorted ascending by (name, address,
\* transport).
C19_ScanResultSortedUnique ==
    scanOut.status = "return" =>
        /\ \A i, j \in 1..Len(scanOut.devices) :
              i # j => DevKey(scanOut.devices[i]) # DevKey(scanOut.devices[j])
        /\ \A i, j \in 1..Len(scanOut.devices) :
              i < j => KeyNotAfter(scanOut.devices[i], scanOut.devices[j])

\* the classic scan listed two devices with the greater name first
C19_Witness ==
    /\ scanOut.status = "return"
    /\ Len(scanIn.classic.devices) = 2
    /\ StrLess(scanIn.classic.devices[2].name, scanIn.classic.devices[1].name)
    /\ Len(scanOut.devices) = 2
    /\ scanOut.devices[1].name = scanIn.classic.devices[2].name

(***************************************************************************)
(* Properties of concurrent calls (checked under SpecConc).                *)
(***************************************************************************)
CallOf(e) == <<e.thread, e.call>>

\* C11: when two write calls run concurrently on the same connected
\* backend, their bytes do not interleave on the socket: all chunks of one
\* payload are sent before any chunk of the other payload.
C11_WritesDoNotInterleave ==
    \A i, j, k \in 1..Len(wire) :
        (i < j /\ j < k /\ CallOf(wire[i]) = CallOf(wire[k])) =>
            CallOf(wire[j]) = CallOf(wire[i])

\* C12: connect, write and disconnect are serialized with respect to the
\* live socket: while a chunk send is in progress its socket is the one
\* the backend retains and is open (it is never closed, cleared or
\* replaced under the send), and a send is never called on a closed or an
\* absent socket.
C12_SerializedOnLiveSocket ==
    \A t \in Threads :
        th[t].pc = "w_send" =>
            /\ th[t].s # NoSock
            /\ sock = th[t].s
            /\ socks[th[t].s] = "connected"

(***************************************************************************)
(* Properties of model detection (checked under SpecDetect).               *)
(***************************************************************************)
\* the same character, or the same letter in the other case
SameIgnoringCase(c, d) ==
    \/ c = d
    \/ IsLowerCase(c) /\ d = c + 100
    \/ IsLowerCase(d) /\ c = d + 100

\* the head_name is set and is a case-insensitive prefix of the name
HeadNameMatches(model, name) ==
    /\ model.head_name # <<>>
    /\ Len(model.head_name) <= Len(name)
    /\ \A k \in 1..Len(model.head_name) : SameIgnoringCase(model.head_name[k], name[k])

HeadNameCandidates ==
    {i \in 1..Len(fnArgs.models) : HeadNameMatches(fnArgs.models[i], fnArgs.name)}

HasHeadName(head) == \E i \in 1..Len(fnArgs.models) : fnArgs.models[i].head_name = head

\* C20: when the head_name of one or several models is a case-insensitive
\* prefix of the device name (a model without a head_name takes no part),
\* detect_with_origin returns one of the models with the longest such
\* head_name, with source HeadName; with models 'ABC' and 'ABCDE' a device
\* named 'ABCDEF123' resolves to the 'ABCDE' model.
C20_LongestHeadName ==
    fnRet.status = "detected" =>
        /\ HeadNameCandidates # {} =>
              /\ fnRet.match.source = HEAD_NAME
              /\ \E i \in HeadNameCandidates : fnRet.match.model = fnArgs.models[i]
              /\ \A j \in HeadNameCandidates :
                    Len(fnArgs.models[j].head_name) <= Len(fnRet.match.model.head_name)
        /\ (/\ HasHeadName(<<101, 102, 103>>)
            /\ HasHeadName(<<101, 102, 103, 104, 105>>)
            /\ fnArgs.name = <<101, 102, 103, 104, 105, 106, 51, 52, 53>>) =>
              fnRet.match.model.head_name = <<101, 102, 103, 104, 105>>

\* 'ABC' stands before 'ABCDE' in the registry and 'ABCDEF123' is detected
C20_Witness ==
    /\ fnRet.status = "detected"
    /\ Len(fnArgs.models) = 2
    /\ fnArgs.models[1].head_name = <<101, 102, 103>>
    /\ fnArgs.models[2].head_name = <<101, 102, 103, 104, 105>>
    /\ fnArgs.name = <<101, 102, 103, 104, 105, 106, 51, 52, 53>>
    /\ fnRet.match.model = fnArgs.models[2]
    /\ fnRet.match.source = HEAD_NAME

\* the model_no is a case-insensitive prefix of the name
ModelNoMatches(model, name) ==
    /\ Len(model.model_no) <= Len(name)
    /\ \A k \in 1..Len(model.model_no) : SameIgnoringCase(model.model_no[k], name[k])

ModelNoCandidates ==
    {i \in 1..Len(fnArgs.models) : ModelNoMatches(fnArgs.models[i], fnArgs.name)}

\* what the alias registry alone makes of the device
AliasDetected ==
    _detect_from_alias(fnArgs.models, fnArgs.aliases, fnArgs.name, fnArgs.address)

\* C21: detect_with_origin tries three paths in a fixed order.  A head_name
\* prefix match wins over every model_no prefix match, even a longer one, and
\* the source is HeadName; a model_no match (the longest model_no) is used
\* only when no head_name matches, and the source is ModelNo; the alias
\* registry decides only when neither matches, and the source is Alias; when
\* no path matches, no model is returned.
C21_ThreePathsInOrder ==
    fnRet.status = "detected" =>
        /\ HeadNameCandidates # {} =>
              /\ fnRet.match.source = HEAD_NAME
              /\ \E i \in HeadNameCandidates : fnRet.match.model = fnArgs.models[i]
        /\ (HeadNameCandidates = {} /\ ModelNoCandidates # {}) =>
              /\ fnRet.match.source = MODEL_NO
              /\ \E i \in ModelNoCandidates : fnRet.match.model = fnArgs.models[i]
              /\ \A j \in ModelNoCandidates :
                    Len(fnArgs.models[j].model_no) <= Len(fnRet.match.model.model_no)
        /\ (HeadNameCandidates = {} /\ ModelNoCandidates = {}) =>
              /\ fnRet.match = AliasDetected
              /\ fnRet.match # NoMatch => fnRet.match.source = ALIAS
        /\ fnRet.match.source = ALIAS =>
              HeadNameCandidates = {} /\ ModelNoCandidates = {}
        /\ (HeadNameCandidates = {} /\ ModelNoCandidates = {} /\ AliasDetected = NoMatch) =>
              fnRet.match = NoMatch

\* 'ABCDEF123' is detected by the head_name 'ABC' of the second model although
\* the model_no 'ABCDEF' of the first is a longer prefix
C21_Witness ==
    /\ fnRet.status = "detected"
    /\ Len(fnArgs.models) = 2
    /\ fnArgs.models[1] = PrinterModel(<<101, 102, 103, 104, 105, 106>>, <<>>)
    /\ fnArgs.models[2] = PrinterModel(<<101, 102>>, <<101, 102, 103>>)
    /\ fnArgs.name = <<101, 102, 103, 104, 105, 106, 51, 52, 53>>
    /\ fnRet.match = PrinterModelMatch(fnArgs.models[2], HEAD_NAME, None)

\* the address, whatever the case of its letters, ends in "AA:BB"
EndsInAABB(address) ==
    /\ Len(address) >= 5
    /\ \A k \in 1..5 :
          SameIgnoringCase(address[Len(address) - 5 + k], <<101, 101, 91, 102, 102>>[k])

\* C22: with a head-name alias mapping the prefix 'XYZ' to 'M1' and a MAC
\* alias mapping the suffix 'AA:BB' to 'M2', models 'M1' and 'M2' in the
\* registry and no model matching the name directly, the device 'XYZPrinter'
\* resolves to M2 at an address ending in 'AA:BB' and to M1 at any other
\* address; used_alias is true in both cases.
C22_AliasOverride ==
    (/\ fnRet.status = "detected"
     /\ fnArgs.aliases = OverrideAliases
     /\ fnArgs.name = <<124, 125, 126, 116, 18, 9, 14, 20, 5, 18>>
     /\ HasHeadName(M1) /\ HasHeadName(M2)
     /\ HeadNameCandidates = {} /\ ModelNoCandidates = {}) =>
        /\ used_alias(fnRet.match)
        /\ fnRet.match.model.head_name =
              (IF EndsInAABB(fnArgs.address) THEN M2 ELSE M1)

\* 'XYZPrinter' at '11:AA:BB' has been resolved to M2 through the MAC alias
C22_Witness ==
    /\ fnRet.status = "detected"
    /\ fnArgs.aliases = OverrideAliases
    /\ fnArgs.name = <<124, 125, 126, 116, 18, 9, 14, 20, 5, 18>>
    /\ fnArgs.address = <<51, 51, 91, 101, 101, 91, 102, 102>>
    /\ HasHeadName(M1) /\ HasHeadName(M2)
    /\ fnRet.match.model.head_name = M2
    /\ fnRet.match.alias_kind = MAC
    /\ used_alias(fnRet.match)

(***************************************************************************)
(* Properties of resolve_printer_device (checked under SpecResolve).       *)
(***************************************************************************)
\* the devices the scan of the call returned
ScannedDevices == fnRet.scan.devices

\* the device is recognized as a printer: a model's head_name or model_no
\* starts its name
Recognized(device) ==
    \E i \in 1..Len(ResolveRegistry.models) :
        \/ HeadNameMatches(ResolveRegistry.models[i], device.name)
        \/ ModelNoMatches(ResolveRegistry.models[i], device.name)

RecognizedDevices == {i \in 1..Len(ScannedDevices) : Recognized(ScannedDevices[i])}

\* a comes before b: classic before BLE, then by name, then by address
ComesBefore(a, b) ==
    \/ a.transport = CLASSIC /\ b.transport = BLE
    \/ a.transport = b.transport /\ StrLess(a.name, b.name)
    \/ a.transport = b.transport /\ a.name = b.name /\ a.address < b.address

\* C23: with no hint, resolve_printer_device returns the recognized printer
\* of the scan that no other recognized printer comes before, in the order
\* classic before BLE, then name, then address, both for an unrestricted scan
\* and for a scan narrowed to one transport.
C23_NoHintFirstInOrder ==
    (/\ fnRet.status = "resolved"
     /\ fnArgs.name_or_address = <<>>
     /\ RecognizedDevices # {}) =>
        /\ fnRet.out.status = "return"
        /\ \E i \in RecognizedDevices : fnRet.out.device = ScannedDevices[i]
        /\ \A j \in RecognizedDevices : ~ComesBefore(ScannedDevices[j], fnRet.out.device)

\* a scan narrowed to classic whose adapter reported "b" before "ab": "ab"
\* is returned
C23_Witness ==
    /\ fnRet.status = "resolved"
    /\ fnArgs.name_or_address = <<>>
    /\ fnArgs.transport = CLASSIC
    /\ Len(fnArgs.classicEnv.devices) = 2
    /\ fnArgs.classicEnv.devices[1].name = <<2>>
    /\ fnArgs.classicEnv.devices[2].name = <<1, 2>>
    /\ fnRet.out.status = "return"
    /\ fnRet.out.device = fnArgs.classicEnv.devices[2]

\* the hint has address form: six hex pairs or the UUID device-id form
AddressForm(hint) == _looks_like_address(hint)

\* the recognized devices named as the hint, whatever the case of the letters
ExactlyNamed ==
    {i \in RecognizedDevices :
         lower(ScannedDevices[i].name) = lower(fnArgs.name_or_address)}

\* what the claim says of a hint that has no address form: a device named
\* as the hint is preferred to one whose name merely contains the hint
NamedBeforeContaining ==
    ~AddressForm(fnArgs.name_or_address) =>
        /\ ExactlyNamed # {} =>
              /\ fnRet.out.status = "return"
              /\ \E i \in ExactlyNamed : fnRet.out.device = ScannedDevices[i]
        /\ (ExactlyNamed = {} /\ fnRet.out.status = "return") =>
              /\ \E i \in RecognizedDevices : fnRet.out.device = ScannedDevices[i]
              /\ contains(lower(fnRet.out.device.name), lower(fnArgs.name_or_address))

\* C24 (as stated): with a hint of address form only a device whose address
\* equals the hint is selected and no name matching is tried; with any other
\* hint a device whose name equals the hint case-insensitively is preferred to
\* every device whose name merely contains it.
C24_Original ==
    (fnRet.status = "resolved" /\ fnArgs.name_or_address # <<>>) =>
        /\ (AddressForm(fnArgs.name_or_address) /\ fnRet.out.status = "return") =>
              AddressText(fnRet.out.device.address) = fnArgs.name_or_address
        /\ NamedBeforeContaining

\* C24 (amended): with a hint of address form only a device whose address
\* equals the hint when the case of the letters is ignored is selected, the
\* first such recognized device if there is one, and no name matching is
\* tried; with any other hint a device whose name equals the hint
\* case-insensitively is preferred to every device whose name merely
\* contains it.
C24_Amended ==
    (fnRet.status = "resolved" /\ fnArgs.name_or_address # <<>>) =>
        /\ (AddressForm(fnArgs.name_or_address) /\ fnRet.out.status = "return") =>
              /\ lower(AddressText(fnRet.out.device.address)) = lower(fnArgs.name_or_address)
              /\ \E i \in RecognizedDevices : fnRet.out.device = ScannedDevices[i]
        /\ (/\ AddressForm(fnArgs.name_or_address)
            /\ \E i \in RecognizedDevices :
                   lower(AddressText(ScannedDevices[i].address))
                       = lower(fnArgs.name_or_address)) =>
              fnRet.out.status = "return"
        /\ NamedBeforeContaining

\* the hint '0a:00:00:00:00:0b' has selected the device at '0A:00:00:00:00:0B'
C24_Witness ==
    /\ fnRet.status = "resolved"
    /\ fnArgs.name_or_address = lower(AddressText(1))
    /\ fnRet.out.status = "return"
    /\ fnRet.out.device.address = 1

\* the hint is the name of a recognized device and has the UUID form: no
\* device is selected by its name
C24_WitnessNoNameMatching ==
    /\ fnRet.status = "resolved"
    /\ fnArgs.name_or_address = upper(DeviceIdName)
    /\ ExactlyNamed # {}
    /\ fnRet.out.status = "raise"
    /\ fnRet.out.error.text = NO_DEVICE_MATCHES

\* the hint 'B' has selected the device 'b' although the device 'ab', which
\* contains the hint, stands before it
C24_WitnessExactName ==
    /\ fnRet.status = "resolved"
    /\ fnArgs.name_or_address = <<102>>
    /\ Len(ScannedDevices) >= 2
    /\ ScannedDevices[1].name = <<1, 2>>
    /\ fnRet.out.status = "return"
    /\ fnRet.out.device.name = <<2>>

\* the device matches the hint: by its address when the hint has address
\* form, by its name otherwise
MatchesHint(device, hint) ==
    IF AddressForm(hint) THEN lower(AddressText(device.address)) = lower(hint)
    ELSE contains(lower(device.name), lower(hint))

ScanReturned == fnRet.scan.status = "return"

\* C25: when its scan returns, resolve_printer_device never returns a device
\* that does not detect to a known model: it fails with 'No supported
\* printers found' when no scanned device is recognized, with or without a
\* hint, and with "No device matches '<hint>'" when some device is recognized
\* but none of the recognized devices matches the hint.
C25_OnlyRecognizedOrNamedError ==
    (fnRet.status = "resolved" /\ ScanReturned) =>
        /\ fnRet.out.status = "return" =>
              \E i \in RecognizedDevices : fnRet.out.device = ScannedDevices[i]
        /\ RecognizedDevices = {} =>
              /\ fnRet.out.status = "raise"
              /\ fnRet.out.error = ResolveError(NO_SUPPORTED_PRINTERS, <<>>)
        /\ (/\ RecognizedDevices # {}
            /\ fnArgs.name_or_address # <<>>
            /\ \A i \in RecognizedDevices :
                   ~MatchesHint(ScannedDevices[i], fnArgs.name_or_address)) =>
              /\ fnRet.out.status = "raise"
              /\ fnRet.out.error.text = NO_DEVICE_MATCHES
              /\ fnRet.out.error.arg = fnArgs.name_or_address

\* the hint is the address of the device 'c', which no model recognizes,
\* and a recognized device was found at the other address
C25_Witness ==
    /\ fnRet.status = "resolved"
    /\ fnArgs.name_or_address = AddressText(2)
    /\ \E i \in 1..Len(ScannedDevices) :
          ScannedDevices[i].address = 2 /\ ScannedDevices[i].name = <<3>>
    /\ RecognizedDevices # {}
    /\ fnRet.out.status = "raise"
    /\ fnRet.out.error.text = NO_DEVICE_MATCHES

\* only unrecognized devices were found and a hint was given
C25_WitnessNoneSupported ==
    /\ fnRet.status = "resolved"
    /\ fnArgs.name_or_address = <<1>>
    /\ ScannedDevices # <<>>
    /\ fnRet.out.status = "raise"
    /\ fnRet.out.error.text = NO_SUPPORTED_PRINTERS

(***************************************************************************)
(* Properties of the adapter selectors (checked under SpecSelect).         *)
(***************************************************************************)
\* C26: for each transport the selector constructs at most one adapter
\* object in the life of the process, and every call, whichever thread makes
\* it, returns the same object, or None on an OS without the transport.
C26_OneAdapterPerTransport ==
    /\ \A tr \in DeviceTransport : instances[tr] <= 1
    /\ \A r1, r2 \in returned : r1.transport = r2.transport => r1.adapter = r2.adapter
    /\ \A r \in returned :
          _select_adapter(platform, r.transport) = None => r.adapter = NoAdapter

(***************************************************************************)
(* Properties of the platform adapters (checked under SpecAdapter).        *)
(***************************************************************************)
\* the last `bluetoothctl info` the call ran reported the device as paired
ConfirmedPaired ==
    \/ fnRet.out.commands = <<"info">> /\ fnArgs.info1 = "yes"
    \/ fnRet.out.commands = <<"info", "pair", "trust", "info">> /\ fnArgs.info2 = "yes"

\* C27: Linux ensure_paired returns normally only when the device is
\* confirmed paired: at once, with no pair or trust command, if the first
\* check reports paired; otherwise after pair, trust and a second check that
\* reports paired; in every other case it raises.
C27_ReturnsOnlyWhenPaired ==
    (fnRet.status = "called" /\ fnArgs.call = "linux_ensure_paired") =>
        /\ fnRet.out.status = "return" <=> ConfirmedPaired
        /\ fnArgs.has_bluetoothctl /\ fnArgs.info1 = "yes" => fnRet.out.commands = <<"info">>

\* the addresses of the devices a scan returned
ResultAddresses == {fnRet.out.devices[i].address : i \in 1..Len(fnRet.out.devices)}

FoundAddresses(found) == {found[i].address : i \in 1..Len(found)}

\* C28: the scan of the Linux classic adapter raises only if no scan method
\* succeeded: when the BLE library returns devices, the scan returns them,
\* also when the bluetoothctl scan failed or bluetoothctl is not installed.
C28_LinuxScanRaisesOnlyOnTotalFailure ==
    (/\ fnRet.status = "called"
     /\ fnArgs.call = "linux_scan_blocking"
     /\ fnArgs.bleak.ok /\ fnArgs.bleak.found # <<>>) =>
        /\ fnRet.out.status = "return"
        /\ FoundAddresses(fnArgs.bleak.found) \subseteq ResultAddresses


\* C29: the scan of the Windows classic adapter contains every device found
\* by the WinRT path, every device found by the Win32 inquiry and every
\* device found by the BLE library.
C29_WindowsScanHasEveryPath ==
    (fnRet.status = "called" /\ fnArgs.call = "windows_scan_blocking") =>
        /\ fnRet.out.status = "return"
        /\ FoundAddresses(fnArgs.winrt.found) \subseteq ResultAddresses
        /\ fnArgs.inquiry.ok => FoundAddresses(fnArgs.inquiry.found) \subseteq ResultAddresses
        /\ fnArgs.bleak.ok => FoundAddresses(fnArgs.bleak.found) \subseteq ResultAddresses

\* C30: when the WinRT pairing raises, Windows ensure_paired returns if the
\* Win32 pairing reports success, and if the Win32 pairing returns false or
\* raises it raises one error that quotes the WinRT error and the Win32
\* error.
C30_Win32DecidesAfterWinRtError ==
    (/\ fnRet.status = "called"
     /\ fnArgs.call = "windows_ensure_paired"
     /\ ~fnArgs.winrt.ok) =>
        /\ fnArgs.win32 = "true" => fnRet.out.status = "return"
        /\ fnArgs.win32 = "false" =>
              /\ fnRet.out.status = "raise"
              /\ fnRet.out.error = WindowsPairingError(fnArgs.winrt.error, WIN32_RETURNED_FALSE)
        /\ fnArgs.win32 = "raises" =>
              /\ fnRet.out.status = "raise"
              /\ fnRet.out.error = WindowsPairingError(fnArgs.winrt.error, fnArgs.win32_error)

C30_Witness ==
    /\ fnRet.status = "called"
    /\ fnArgs.call = "windows_ensure_paired"
    /\ ~fnArgs.winrt.ok
    /\ fnArgs.win32 = "false"
    /\ fnRet.out.status = "raise"
    /\ fnRet.out.error.winrt = fnArgs.winrt.error
    /\ fnRet.out.error.win32 = WIN32_RETURNED_FALSE

C30_WitnessWin32Paired ==
    /\ fnRet.status = "called"
    /\ fnArgs.call = "windows_ensure_paired"
    /\ ~fnArgs.winrt.ok
    /\ fnArgs.win32 = "true"
    /\ fnRet.out.status = "return"
    /\ fnRet.out.commands = <<"winrt", "win32">>


\* C31: Windows ensure_paired attempts the WinRT pairing first and calls the
\* Win32 pairing only if the WinRT pairing failed; when the WinRT pairing
\* succeeds, ensure_paired returns without raising.
C31_Win32OnlyAfterWinRtFailure ==
    (fnRet.status = "called" /\ fnArgs.call = "windows_ensure_paired") =>
        /\ fnRet.out.commands[1] = "winrt"
        /\ (\E i \in 1..Len(fnRet.out.commands) : fnRet.out.commands[i] = "win32") =>
               ~fnArgs.winrt.ok
        /\ fnArgs.winrt.ok => fnRet.out.status = "return"


(***************************************************************************)
(* Properties of the BLE socket (checked under SpecBle).                   *)
(***************************************************************************)
\* connect has ended, the GATT session was opened, and the device has no
\* characteristic with a write property
ConnectedToUnwritable ==
    /\ bsock.at \in {"connected", "raised"}
    /\ fnArgs.client = "ok"
    /\ ~fnArgs.write_char

\* the event loop connect created was closed and the socket has dropped it
LoopReleased == bsock.loop = "closed" /\ ~bsock._loop

\* the search for a write characteristic ran: pairing was not asked for, or
\* it did not fail
SearchRan == ~bsock._pairing_hint \/ fnArgs.pair \notin {"false", "raises"}

\* C32: if, after the GATT session is opened, the device has no characteristic
\* with a write property, connect raises an error naming the device address,
\* the GATT session has been disconnected, the socket reports not connected
\* and its event loop has been released.
C32_NoWriteCharacteristicIsHardError ==
    (ConnectedToUnwritable /\ SearchRan) =>
        /\ bsock.at = "raised"
        /\ bsock.error.address = fnArgs.address
        /\ bsock.session = "disconnected"
        /\ ~bsock._connected
        /\ LoopReleased

\* C33: whenever connect fails after the GATT session was opened, then once
\* the backend has closed the failed socket the GATT session has been
\* disconnected and the event loop closed.
C33_SessionAndLoopReleasedOnEveryExit ==
    (bsock.at = "closed" /\ bsock.error # NoBleError /\ fnArgs.client = "ok") =>
        /\ bsock.session = "disconnected"
        /\ bsock.loop = "closed"


(***************************************************************************)
(* Properties of the GUI (checked under SpecGui).                          *)
(***************************************************************************)
\* C34: code that runs on the BleLoop thread changes UI state only by putting
\* messages on the queue: it never writes a UI-owned field and never calls
\* a widget or timer method.
C34_BackgroundOnlyQueues == gui.touched = {}


(***************************************************************************)
(* More properties of the sequential backend (checked under Spec).         *)
(***************************************************************************)
\* C35: whenever no backend operation is in progress, is_connected() is true
\* exactly when a socket is retained, and exactly then the channel and the
\* transport are set.
C35_StateFieldsAgree ==
    pc = "idle" =>
        /\ is_connected <=> sock # NoSock
        /\ is_connected <=> channel # NoChannel
        /\ is_connected <=> transport # None


\* a write on a connected backend has failed and the backend is idle again
C35_Witness ==
    /\ pc = "idle"
    /\ result = Propagated("write", SendError)
    /\ is_connected /\ sock # NoSock /\ channel # NoChannel /\ transport # None


\* C36: connect on an already connected backend returns without error and
\* without any adapter call (no pairing, no channel resolution, no socket
\* creation) and leaves socket, channel and transport unchanged, also when
\* the device passed differs from the device the backend is connected to.
C36_ConnectWhenConnectedIsNoOp ==
    [][ (pc = "idle" /\ is_connected /\ result'.op = "connect") =>
            /\ result' = Returned("connect")
            /\ pc' = "idle"
            /\ cx'.adapter = None /\ cx'.pair_error = NoExc
            /\ cx'.resolved = NoChannel /\ cx'.channels = <<>> /\ cx'.tried = <<>>
            /\ UNCHANGED <<sock, connected, channel, transport, socks>> ]_vars

\* a connect for a device of the other transport returned at once
C36_Witness ==
    /\ result = Returned("connect")
    /\ is_connected
    /\ cx.transport # None /\ cx.transport # transport
    /\ cx.adapter = None /\ cx.tried = <<>>


(***************************************************************************)
(* Termination of write (checked under SpecWrite).                         *)
(***************************************************************************)
\* C37: write terminates for every payload, every chunk_size (0 included)
\* and every interval, provided each socket send returns: whenever a write
\* is in its loop it later is not, having returned or raised.
C37_WriteTerminates == (pc = "write") ~> (pc = "idle")


(***************************************************************************)
(* One live socket (checked under SpecConc).                               *)
(***************************************************************************)
\* each thread has made one call, a connect, and both calls have ended
TwoConnectsEnded ==
    \A t \in Threads : th[t].pc = "idle" /\ th[t].calls = 1 /\ th[t].op = "connect"

\* C38: after any interleaving of two concurrent connect calls on an Idle
\* backend, every socket whose connect succeeded is either the socket
\* retained by the backend or has been closed.
C38_AtMostOneLiveSocket ==
    TwoConnectsEnded =>
        \A id \in 1..Len(socks) : socks[id] = "connected" => id = sock


(***************************************************************************)
(* No socket is leaked by a sequential connect (checked under Spec).       *)
(***************************************************************************)
\* the sockets the connect in progress or last finished has created
CreatedByConnect == (cx.before + 1)..Len(socks)

StartsWithHeadAliasPrefix ==
    \E i \in 1..Len(fnArgs.aliases.head_aliases) :
        \E j \in 1..Len(fnArgs.aliases.head_aliases[i].prefixes) :
            LET prefix == normalize_alias_name(fnArgs.aliases.head_aliases[i].prefixes[j])
            IN  prefix # <<>> /\ startswith(normalize_alias_name(fnArgs.name), prefix)

\* a MAC alias has a suffix the address ends with
EndsWithMacAliasSuffix ==
    \E i \in 1..Len(fnArgs.aliases.mac_aliases) :
        matches(fnArgs.aliases.mac_aliases[i].suffixes, fnArgs.address)

====
